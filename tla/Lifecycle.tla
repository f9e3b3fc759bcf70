----------------------------- MODULE Lifecycle -----------------------------
(***************************************************************************)
(* Start, Stop and Peer().Listen of a node (node/node.go, node/peer.go)    *)
(* with Start and Stop of its transports (node/transport.go), statement by *)
(* statement, as the handlers of the API server call them side by side.    *)
(* Nothing of this is under a lock.                                        *)
(*                                                                         *)
(* A transport is named by the call of Listen that made it.  Of a running  *)
(* channel only its state matters here; what the routines that wait on it  *)
(* do is in Routines.  Reads and writes of the slice header of             *)
(* node.transports are single steps.                                       *)
(***************************************************************************)
EXTENDS ApiServer, Sequences, Functions

CONSTANTS
    Addrs,      \* addresses to listen on
    NoAddr

VARIABLES
    running,    \* node.running: "nil", "open" or "closed"
    transports, \* node.transports
    trun,       \* trun[t]: tpt.running of transport t
    addr,       \* addr[t]: the address the socket of t is bound to
    walk        \* walk[c]: the slice the call has in hand

nodeVars == <<running, transports, trun, addr, walk>>

LifecycleInit ==
    /\ running = "nil"
    /\ transports = <<>>
    /\ trun = [c \in Calls |-> "nil"]
    /\ addr = [c \in Calls |-> NoAddr]
    /\ walk = [c \in Calls |-> <<>>]

Running == running = "open"

----------------------------------------------------------------------------
\* Start: the check, and the new channel with the routines behind it.
Start(c) ==
    /\ IF Running THEN BeginAndEnd(c, "start", "refused") ELSE Begin(c, "start", "make")
    /\ UNCHANGED nodeVars

StartMake(c) ==
    /\ pc[c] = "make"
    /\ running' = "open"
    /\ Goto(c, "range")
    /\ UNCHANGED <<transports, trun, addr, walk>>

\* A Stop that does not ask whether the node runs.
StopUnasked(c) ==
    /\ Begin(c, "stop", "close")
    /\ UNCHANGED nodeVars

\* Stop: the check, and close(node.running), which panics if another Stop has
\* closed the channel in the meantime.
Stop(c) ==
    /\ IF Running THEN Begin(c, "stop", "close") ELSE BeginAndEnd(c, "stop", "refused")
    /\ UNCHANGED nodeVars

StopClose(c) ==
    /\ pc[c] = "close"
    /\ running' = "closed"
    /\ IF Running THEN Goto(c, "range") ELSE End(c, "panic")
    /\ UNCHANGED <<transports, trun, addr, walk>>

\* The call goes on with the transports that are left.
Onward(c, rest) ==
    /\ walk' = [walk EXCEPT ![c] = rest]
    /\ IF rest = <<>> THEN End(c, "ok") ELSE Goto(c, "walk")

\* The range over node.transports takes the slice as it is now.
TakeTransports(c) ==
    /\ pc[c] = "range"
    /\ Onward(c, transports)
    /\ UNCHANGED <<running, transports, trun, addr>>

----------------------------------------------------------------------------
\* A check that takes a stopped transport for a running one.
TptStartOnce(c) ==
    LET t == Head(walk[c])
    IN  /\ pc[c] = "walk"
        /\ op[c] # "stop"
        /\ IF trun[t] # "nil" THEN Onward(c, Tail(walk[c]))
           ELSE Goto(c, "tmake") /\ UNCHANGED walk
        /\ UNCHANGED <<running, transports, trun, addr>>

\* Transport.Start: the check, and the new channel.
TptStart(c) ==
    LET t == Head(walk[c])
    IN  /\ pc[c] = "walk"
        /\ op[c] # "stop"
        /\ IF trun[t] = "open" THEN Onward(c, Tail(walk[c]))
           ELSE Goto(c, "tmake") /\ UNCHANGED walk
        /\ UNCHANGED <<running, transports, trun, addr>>

TptMake(c) ==
    /\ pc[c] = "tmake"
    /\ trun' = [trun EXCEPT ![Head(walk[c])] = "open"]
    /\ Onward(c, Tail(walk[c]))
    /\ UNCHANGED <<running, transports, addr>>

\* Transport.Stop: the check, and the close, which may panic as well.
TptStop(c) ==
    LET t == Head(walk[c])
    IN  /\ pc[c] = "walk"
        /\ op[c] = "stop"
        /\ IF trun[t] # "open" THEN Onward(c, Tail(walk[c]))
           ELSE Goto(c, "tclose") /\ UNCHANGED walk
        /\ UNCHANGED <<running, transports, trun, addr>>

TptClose(c) ==
    LET t == Head(walk[c])
    IN  /\ pc[c] = "tclose"
        /\ trun' = [trun EXCEPT ![t] = "closed"]
        /\ IF trun[t] = "open" THEN Onward(c, Tail(walk[c]))
           ELSE End(c, "panic") /\ UNCHANGED walk
        /\ UNCHANGED <<running, transports, addr>>

----------------------------------------------------------------------------
\* Listen: NewTransport binds the socket, or fails because it is bound.  No
\* socket is ever closed.
Listen(c, a) ==
    /\ IF \E t \in Calls : addr[t] = a
       THEN BeginAndEnd(c, "listen", "refused") /\ UNCHANGED addr
       ELSE Begin(c, "listen", "read") /\ addr' = [addr EXCEPT ![c] = a]
    /\ UNCHANGED <<running, transports, trun, walk>>

\* node.transports = append(node.transports, tpt): a read and a write.
ListenRead(c) ==
    /\ pc[c] = "read"
    /\ walk' = [walk EXCEPT ![c] = transports]
    /\ Goto(c, "append")
    /\ UNCHANGED <<running, transports, trun, addr>>

ListenAppend(c) ==
    /\ pc[c] = "append"
    /\ transports' = Append(walk[c], c)
    /\ Goto(c, "ask")
    /\ UNCHANGED <<running, trun, addr, walk>>

\* A Listen that leaves its transport to the next Start.
ListenAsksNot(c) ==
    /\ pc[c] = "ask"
    /\ Onward(c, <<>>)
    /\ UNCHANGED <<running, transports, trun, addr>>

\* The transport is started if the node runs.
ListenAsk(c) ==
    /\ pc[c] = "ask"
    /\ Onward(c, IF Running THEN <<c>> ELSE <<>>)
    /\ UNCHANGED <<running, transports, trun, addr>>

LifecycleStep(c) ==
    \/ Start(c) \/ StartMake(c) \/ Stop(c) \/ StopClose(c) \/ TakeTransports(c)
    \/ TptStart(c) \/ TptMake(c) \/ TptStop(c) \/ TptClose(c)
    \/ \E a \in Addrs : Listen(c, a)
    \/ ListenRead(c) \/ ListenAppend(c) \/ ListenAsk(c)

----------------------------------------------------------------------------
\* The transports the node knows run if it runs, and rest if it rests.
Agree == \A t \in Range(transports) : trun[t] = "open" <=> Running

\* Whatever earlier calls have left behind: a Start or a Stop that is not
\* refused, and that no other call overlaps, leaves the node and all of its
\* transports in agreement.
LoneCallAgrees ==
    [][\A c \in Calls :
          (pc'[c] = "done" /\ pc[c] # "done" /\ op'[c] \in {"start", "stop"}
             /\ result'[c] = "ok" /\ met'[c] = {})
          => Agree']_<<callVars, nodeVars>>

\* When all calls have returned and no two Listens overlapped, the node knows
\* the transport of every Listen that returned no error.  If no Stop overlapped
\* a Start or a Listen either, node and transports agree: Starts may overlap
\* Starts and Listens, and Stops may overlap Stops, and no transport is left out
\* by a Start that ran beside its Listen.
QuietAgrees ==
    Quiet /\ ~Overlapped({"listen"}, {"listen"})
      => /\ Range(transports) = {c \in Calls : op[c] = "listen" /\ result[c] = "ok"}
         /\ ~Overlapped({"stop"}, {"start", "listen"}) => Agree
=============================================================================
