------------------------------ MODULE Control ------------------------------
(***************************************************************************)
(* A node under its API: Lifecycle and Discovery side by side, driven by   *)
(* the same requests.  They meet where an announcement takes its port from *)
(* the listeners of the node (Peer().Status).                              *)
(***************************************************************************)
EXTENDS Lifecycle, Discovery

CONSTANTS
    Addrs6,     \* the addresses that are IPv6 ones
    MaxMixed    \* bounds the requests if they are of both kinds

ASSUME ControlAssumption == Addrs6 \subseteq Addrs /\ MaxMixed \in Nat

VARIABLE announced  \* the address last announced, NoAddr for port 0

vars == <<callVars, nodeVars, discoveryVars, announced>>

Init == ApiInit /\ LifecycleInit /\ DiscoveryInit /\ announced = NoAddr

\* The listener that came last gives the port.
ourportNewest == IF transports = <<>> THEN NoAddr ELSE addr[transports[Len(transports)]]

\* Status lists the listeners in the order of node.transports; the first IPv6
\* one gives the port.
Listeners6 == {i \in DOMAIN transports : addr[transports[i]] \in Addrs6}

ourport ==
    IF Listeners6 = {} THEN NoAddr
    ELSE addr[transports[CHOOSE i \in Listeners6 : \A j \in Listeners6 : i <= j]]

\* One round of announceRoutine.  Nothing comes of it if the socket is closed.
Announce(k) ==
    /\ Tick(k)
    /\ announced' = IF sock[k] = "open" THEN ourport ELSE announced
    /\ UNCHANGED nodeVars

NodeCalls == {"start", "stop", "listen"}
LinkLocalCalls == {"llstart", "llstop"}

\* Request c comes in beside requests of its own kind only, or early enough.
MayCome(c, kind) ==
    pc[c] = "idle" => c <= MaxMixed \/ \A d \in 1..(c - 1) : op[d] \in kind

NodeStep(c) ==
    /\ MayCome(c, NodeCalls)
    /\ LifecycleStep(c)
    /\ UNCHANGED <<discoveryVars, announced>>

ServiceStep(c) ==
    /\ MayCome(c, LinkLocalCalls)
    /\ DiscoveryStep(c)
    /\ UNCHANGED <<nodeVars, announced>>

Routine(k) == RoutineStep(k) /\ UNCHANGED <<nodeVars, announced>>

Next ==
    \E c \in Calls : NodeStep(c) \/ ServiceStep(c) \/ Routine(c) \/ Announce(c)

\* A receiveRoutine is scheduled, and packets keep coming in on the link.
ReceiverStep(k) == ReceiveExit(k) /\ UNCHANGED <<nodeVars, announced>>

Spec == Init /\ [][Next]_vars /\ \A k \in Calls : WF_vars(ReceiverStep(k))

----------------------------------------------------------------------------
States == {"nil", "open", "closed"}
Operations == {"start", "stop", "listen", "llstart", "llstop"}
Results == {"ok", "refused", "failed", "panic"}
Places ==
    {"make", "close", "range", "walk", "tmake", "tclose", "read", "append", "ask",
     "seek", "halt", "llclose", "add", "lookup", "llstart", "llmake", "bind"}

TypeOK ==
    /\ op \in [Calls -> Operations \cup {"none"}]
    /\ pc \in [Calls -> Places \cup {"idle", "done"}]
    /\ result \in [Calls -> Results \cup {"none"}]
    /\ met \in [Calls -> SUBSET Calls]
    /\ running \in States /\ trun \in [Calls -> States]
    /\ transports \in Seq(Calls) /\ walk \in [Calls -> Seq(Calls)]
    /\ addr \in [Calls -> Addrs \cup {NoAddr}]
    /\ service \in Calls \cup {NoCall} /\ closed \subseteq Calls
    /\ {chan, hand, owner} \subseteq [Calls -> Calls \cup {NoCall}]
    /\ sock \in [Calls -> {"none", "open", "closed"}]
    /\ announcer \in [Calls -> [at : {"begin", "select", "gone"},
                                ch : Calls \cup {NoCall}]]
    /\ announced \in Addrs6 \cup {NoAddr}

\* close of a closed channel panics.  No call panics unless another one that
\* closes the same channel overlapped it: a Stop a Stop, and a StartLinkLocal
\* or StopLinkLocal one of these.
NoLonePanic ==
    \A c \in Calls : result[c] = "panic" =>
        /\ op[c] \in {"stop"} \cup LinkLocalCalls
        /\ \E d \in met[c] : {op[c], op[d]} = {"stop"} \/ {op[c], op[d]} \subseteq LinkLocalCalls

\* No LinkLocal is left running that the service manager does not know any
\* more, and that therefore no call can stop, unless two StartLinkLocal
\* overlapped.
OnlyRegisteredRuns ==
    ~Overlapped({"llstart"}, {"llstart"})
      => \A l \in Calls : LLRunning(l) => l = service

\* Between the calls, a LinkLocal whose Start returned no error and that runs
\* has its socket, with both routines at work: the receiveRoutine of an earlier
\* one does not close it, nor does its Start reuse a channel that was closed.
StartedServes ==
    Quiet /\ ~Overlapped({"llstart"}, {"llstart"})
      => \A l \in Calls : LLRunning(l) /\ result[l] = "ok"
           => /\ owner[l] = l
              /\ sock[l] = "open"
              /\ announcer[l] # Gone

\* Once a LinkLocal is stopped, its socket is closed and the port is free for
\* the next StartLinkLocal, as long as packets come in on the link and no two
\* StartLinkLocal overlapped.
PortHeldInVain == \E k \in Calls : sock[k] = "open" /\ ~LLRunning(owner[k])

PortReleased ==
    PortHeldInVain ~> ~PortHeldInVain \/ Overlapped({"llstart"}, {"llstart"})

\* Neighbours are told one address: once an announcement has named a listener,
\* later ones name the same, whatever is started, stopped or listened on in
\* between, unless two Listens overlapped.
AnnouncedStable ==
    [][announced # NoAddr /\ ~Overlapped({"listen"}, {"listen"})
         => announced' = announced]_vars
=============================================================================
