----------------------------- MODULE Discovery -----------------------------
(***************************************************************************)
(* Link-local discovery (node/discovery/linklocal.go) under the service    *)
(* manager (node/service/service.go), as StartLinkLocal and StopLinkLocal  *)
(* (node/discovery.go) drive it from the handlers of the API server.       *)
(*                                                                         *)
(* Every StartLinkLocal makes a LinkLocal, a running channel and a socket  *)
(* with two routines, at most; all of these are named by the call.  One    *)
(* socket at a time can be bound to LinkLocalPort.                         *)
(*                                                                         *)
(* Two things that end the whole process are left out: that the runtime    *)
(* catches an access to the services map in the very moment of a write to  *)
(* it, and that announceRoutine, which is in no handler, panics because    *)
(* the interval is not positive.                                           *)
(***************************************************************************)
EXTENDS ApiServer

CONSTANT MaxLLCalls     \* bounds the requests about link-local discovery

ASSUME MaxLLCallsAssumption == MaxLLCalls \in Nat

VARIABLES
    service,    \* services[ServiceTagLinkLocal]: the LinkLocal registered
    chan,       \* chan[l]: the channel in the running field of LinkLocal l
    closed,     \* channels that were closed
    hand,       \* hand[c]: the LinkLocal call c has read from the map
    owner,      \* owner[k]: the LinkLocal whose socket k is
    sock,       \* sock[k]: "none", "open" while its receiveRoutine is there,
                \* or "closed"
    announcer   \* announcer[k]: where the announceRoutine of socket k is, with
                \* the channel it waits on

sockets == <<owner, sock, announcer>>
discoveryVars == <<service, chan, closed, hand, sockets>>

At(place, ch) == [at |-> place, ch |-> ch]
Gone == At("gone", NoCall)

DiscoveryInit ==
    /\ service = NoCall
    /\ chan = [c \in Calls |-> NoCall]
    /\ closed = {}
    /\ hand = [c \in Calls |-> NoCall]
    /\ owner = [c \in Calls |-> NoCall]
    /\ sock = [c \in Calls |-> "none"]
    /\ announcer = [c \in Calls |-> Gone]

\* LinkLocal.Running
LLRunning(l) == chan[l] # NoCall /\ chan[l] \notin closed

----------------------------------------------------------------------------
LLCallsLeft == Cardinality({c \in Calls : op[c] \in {"llstart", "llstop"}}) < MaxLLCalls

StartLinkLocal(c) ==
    /\ LLCallsLeft
    /\ Begin(c, "llstart", "seek")
    /\ UNCHANGED discoveryVars

StopLinkLocal(c) ==
    /\ LLCallsLeft
    /\ Begin(c, "llstop", "seek")
    /\ UNCHANGED discoveryVars

\* An Add that just replaces the service.
SeekNot(c) ==
    /\ pc[c] = "seek"
    /\ hand' = [hand EXCEPT ![c] = service]
    /\ \/ service # NoCall /\ op[c] = "llstop" /\ Goto(c, "halt")
       \/ op[c] = "llstart" /\ Goto(c, "add")
       \/ service = NoCall /\ op[c] = "llstop" /\ End(c, "refused")
    /\ UNCHANGED <<service, chan, closed, sockets>>

\* Add looks for the service that it replaces, and ServiceManager.Stop for the
\* one to stop (or else ErrServiceUnknown).
Seek(c) ==
    /\ pc[c] = "seek"
    /\ hand' = [hand EXCEPT ![c] = service]
    /\ \/ service # NoCall /\ Goto(c, "halt")
       \/ service = NoCall /\ op[c] = "llstart" /\ Goto(c, "add")
       \/ service = NoCall /\ op[c] = "llstop" /\ End(c, "refused")
    /\ UNCHANGED <<service, chan, closed, sockets>>

\* LinkLocal.Stop of the one in hand: the check, whose error Add ignores, and
\* the close, which panics if the channel is closed by now.
HaltCheck(c) ==
    /\ pc[c] = "halt"
    /\ \/ LLRunning(hand[c]) /\ Goto(c, "llclose")
       \/ ~LLRunning(hand[c]) /\ op[c] = "llstart" /\ Goto(c, "add")
       \/ ~LLRunning(hand[c]) /\ op[c] = "llstop" /\ End(c, "refused")
    /\ UNCHANGED discoveryVars

HaltClose(c) ==
    /\ pc[c] = "llclose"
    /\ closed' = closed \cup {chan[hand[c]]}
    /\ \/ ~LLRunning(hand[c]) /\ End(c, "panic")
       \/ LLRunning(hand[c]) /\ op[c] = "llstart" /\ Goto(c, "add")
       \/ LLRunning(hand[c]) /\ op[c] = "llstop" /\ End(c, "ok")
    /\ UNCHANGED <<service, chan, hand, sockets>>

\* Add: the new LinkLocal is registered, and ServiceManager.Start looks up
\* which one that is.
Add(c) ==
    /\ pc[c] = "add"
    /\ service' = c
    /\ Goto(c, "lookup")
    /\ UNCHANGED <<chan, closed, hand, sockets>>

Lookup(c) ==
    /\ pc[c] = "lookup"
    /\ hand' = [hand EXCEPT ![c] = service]
    /\ Goto(c, "llstart")
    /\ UNCHANGED <<service, chan, closed, sockets>>

\* LinkLocal.Start of the one in hand: the check, the channel and the socket.
LLStart(c) ==
    /\ pc[c] = "llstart"
    /\ IF LLRunning(hand[c]) THEN End(c, "refused") ELSE Goto(c, "llmake")
    /\ UNCHANGED discoveryVars

LLMake(c) ==
    /\ pc[c] = "llmake"
    /\ chan' = [chan EXCEPT ![hand[c]] = c]
    /\ Goto(c, "bind")
    /\ UNCHANGED <<service, closed, hand, sockets>>

PortTaken == \E k \in Calls : sock[k] = "open"

\* ListenUDP fails while another socket has the port, and the channel stays.
LLBind(c) ==
    /\ pc[c] = "bind"
    /\ IF PortTaken THEN End(c, "failed") /\ UNCHANGED sockets
       ELSE /\ owner' = [owner EXCEPT ![c] = hand[c]]
            /\ sock' = [sock EXCEPT ![c] = "open"]
            /\ announcer' = [announcer EXCEPT ![c] = At("begin", NoCall)]
            /\ End(c, "ok")
    /\ UNCHANGED <<service, chan, closed, hand>>

----------------------------------------------------------------------------
registry == <<callVars, service, chan, closed, hand, owner>>

\* A receiveRoutine that leaves without closing the socket, and one that leaves
\* when it likes.
ReceiveExitLeaks(k) ==
    /\ sock[k] = "open"
    /\ ~LLRunning(owner[k])
    /\ UNCHANGED <<registry, sock, announcer>>

ReceiveExitAnyway(k) ==
    /\ sock[k] = "open"
    /\ sock' = [sock EXCEPT ![k] = "closed"]
    /\ UNCHANGED <<registry, announcer>>

\* receiveRoutine: it looks whether the service runs when it begins and after
\* every packet, from this node or another, and closes the socket when it does
\* not.  What a packet holds is only logged.
ReceiveExit(k) ==
    /\ sock[k] = "open"
    /\ ~LLRunning(owner[k])
    /\ sock' = [sock EXCEPT ![k] = "closed"]
    /\ UNCHANGED <<registry, announcer>>

\* announceRoutine: it waits for a tick, or for the end of the channel it finds.
AnnounceBegin(k) ==
    /\ announcer[k].at = "begin"
    /\ announcer' = [announcer EXCEPT ![k] = At("select", chan[owner[k]])]
    /\ UNCHANGED <<registry, sock>>

AnnounceExit(k) ==
    /\ announcer[k].at = "select"
    /\ announcer[k].ch \in closed
    /\ announcer' = [announcer EXCEPT ![k] = Gone]
    /\ UNCHANGED <<registry, sock>>

\* A tick: the announcement itself, with the port of a listener, is in Control.
Tick(k) ==
    /\ announcer[k].at = "select"
    /\ announcer' = [announcer EXCEPT ![k] = At("select", chan[owner[k]])]
    /\ UNCHANGED <<registry, sock>>

DiscoveryStep(c) ==
    \/ StartLinkLocal(c) \/ StopLinkLocal(c) \/ Seek(c) \/ HaltCheck(c) \/ HaltClose(c)
    \/ Add(c) \/ Lookup(c) \/ LLStart(c) \/ LLMake(c) \/ LLBind(c)

RoutineStep(k) ==
    ReceiveExit(k) \/ AnnounceBegin(k) \/ AnnounceExit(k)
=============================================================================
