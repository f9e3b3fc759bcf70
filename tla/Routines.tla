------------------------------ MODULE Routines ------------------------------
(***************************************************************************)
(* Start and Stop of a node (node/node.go) and of its transport            *)
(* (node/transport.go), and the routines they run: each reads one queue    *)
(* and puts what it makes of a packet into the queue of another.           *)
(*                                                                         *)
(* Some of these are a Put, which makes room by dropping; the others are a *)
(* PutWithBackpressure, which waits for room.  What a routine does with a  *)
(* packet is not modelled here, only where it may go, so a queue is how    *)
(* many packets it holds.  The routines outside Kinds read whatever they   *)
(* get, and put to the queues of Kinds whenever they like.                 *)
(*                                                                         *)
(* Start and Stop are called one at a time.  The transport has a running   *)
(* channel of its own, made and closed by the same calls, so one channel   *)
(* stands for both.                                                        *)
(***************************************************************************)
EXTENDS Naturals, FiniteSets, FiniteSetsExt

CONSTANTS
    Kinds,      \* the routines of this instance
    Cap,        \* capacity of a queue; 1024 in the code
    MaxStarts   \* bound: how often Start succeeds

(***************************************************************************)
(* From the routines: the queue each reads, those it puts to, and those it *)
(* puts to with backpressure.  SendPacket and the forwarder put to the     *)
(* lowerSendQ of the peer's slot, or to upperRecvQ, which is slot 0; a     *)
(* handler of the upper mux may call Send.                                 *)
(***************************************************************************)
Reads ==
    [helloSend |-> "helloSendQ", lowerSend |-> "lowerSendQ", upperSend |-> "upperSendQ",
     helloRecv |-> "helloRecvQ", lowerRecv |-> "lowerRecvQ", lowerMux |-> "lowerMuxQ",
     upperRecv |-> "upperRecvQ", upperMux |-> "upperMuxQ",
     tptSend |-> "sendQ", tptRecv |-> "socket"]

Puts ==
    [helloSend |-> {"upperRecvQ"}, lowerSend |-> {}, upperSend |-> {"upperRecvQ"},
     helloRecv |-> {"upperRecvQ"}, lowerRecv |-> {"helloRecvQ", "lowerMuxQ"},
     lowerMux |-> {"upperRecvQ", "upperMuxQ"}, upperRecv |-> {"helloRecvQ", "upperMuxQ"},
     upperMux |-> {}, tptSend |-> {}, tptRecv |-> {"lowerRecvQ"}]

\* lowerSend puts a packet it has no session for back into its own queue.
BackpressureRequeues ==
    [helloSend |-> {"sendQ", "lowerSendQ"}, lowerSend |-> {"sendQ", "lowerSendQ"},
     upperSend |-> {"lowerSendQ"}, helloRecv |-> {"sendQ", "lowerSendQ"}, lowerRecv |-> {},
     lowerMux |-> {"lowerSendQ"}, upperRecv |-> {}, upperMux |-> {"upperSendQ"},
     tptSend |-> {}, tptRecv |-> {}]

Backpressure ==
    [helloSend |-> {"sendQ", "lowerSendQ"}, lowerSend |-> {"sendQ"},
     upperSend |-> {"lowerSendQ"}, helloRecv |-> {"sendQ", "lowerSendQ"}, lowerRecv |-> {},
     lowerMux |-> {"lowerSendQ"}, upperRecv |-> {}, upperMux |-> {"upperSendQ"},
     tptSend |-> {}, tptRecv |-> {}]

Queues == {Reads[k] : k \in Kinds}

ASSUME RoutinesAssumption ==
    /\ Kinds \subseteq DOMAIN Reads
    /\ Cap \in Nat \ {0}
    /\ MaxStarts \in Nat

VARIABLES
    running,    \* the running channel: 0 is nil, k was made by the k-th Start
    closed,     \* running channels that were closed
    inst,       \* inst[k][g]: the routine of kind k that the g-th Start runs
    len         \* len[q]: how many packets queue q holds

nodeVars == <<running, closed, inst, len>>

Starts == 1 .. MaxStarts

\* Where a routine is: not started, before its select, in its select on
\* channel c, waiting for room in queue q, or gone.
None == [at |-> "none"]
Loop == [at |-> "loop"]
Select(c) == [at |-> "select", ch |-> c]
Waits(q) == [at |-> "put", q |-> q]
Gone == [at |-> "gone"]

NodeInit ==
    /\ running = 0
    /\ closed = {}
    /\ inst = [k \in Kinds |-> [g \in Starts |-> None]]
    /\ len = [q \in Queues |-> 0]

----------------------------------------------------------------------------
Running == running # 0 /\ running \notin closed

\* The routines are started before the channel is made.
StartRunsFirst ==
    /\ ~Running
    /\ running < MaxStarts
    /\ running' = running + 1
    /\ inst' = [k \in Kinds |-> [inst[k] EXCEPT ![running + 1] =
                  Select(running)]]
    /\ UNCHANGED <<closed, len>>

\* Start: a new running channel, and one routine of every kind.
Start ==
    /\ ~Running
    /\ running < MaxStarts
    /\ running' = running + 1
    /\ inst' = [k \in Kinds |-> [inst[k] EXCEPT ![running + 1] = Loop]]
    /\ UNCHANGED <<closed, len>>

\* A Stop that replaces the channel and does not close it.
StopOpen ==
    /\ Running
    /\ running' = 0
    /\ UNCHANGED <<closed, inst, len>>

Stop ==
    /\ Running
    /\ closed' = closed \cup {running}
    /\ UNCHANGED <<running, inst, len>>

----------------------------------------------------------------------------
\* The routine comes to its select, and reads the field node.running there.
Enter(k, g) ==
    /\ inst[k][g].at = "loop"
    /\ inst' = [inst EXCEPT ![k][g] = Select(running)]
    /\ UNCHANGED <<running, closed, len>>

\* case <-node.running: return.  RecvRoutine of the transport has no such case.
Exit(k, g) ==
    /\ inst[k][g].at = "select"
    /\ k # "tptRecv"
    /\ inst[k][g].ch \in closed
    /\ inst' = [inst EXCEPT ![k][g] = Gone]
    /\ UNCHANGED <<running, closed, len>>

\* Queue q with one packet more; Put drops the oldest when there is no room.
PutTo(lens, q) == [lens EXCEPT ![q] = Min({Cap, @ + 1})]

\* The routine takes a packet.  It is done with it, or puts it to another
\* queue, or goes to wait for room in one.
Take(k, g) ==
    LET rest == IF k = "tptRecv" THEN len ELSE [len EXCEPT ![Reads[k]] = @ - 1]
    IN  /\ inst[k][g].at = "select"
        /\ k # "tptRecv" => len[Reads[k]] > 0
        /\ \/ /\ \E lens \in {rest} \cup {PutTo(rest, q) : q \in Puts[k] \cap Queues} : len' = lens
              /\ inst' = [inst EXCEPT ![k][g] = Loop]
           \/ /\ len' = rest
              /\ \E q \in Backpressure[k] \cap Queues : inst' = [inst EXCEPT ![k][g] = Waits(q)]
        /\ UNCHANGED <<running, closed>>

PutAfterWait(k, g) ==
    LET q == inst[k][g].q
    IN  /\ inst[k][g].at = "put"
        /\ len[q] < Cap
        /\ len' = [len EXCEPT ![q] = @ + 1]
        /\ inst' = [inst EXCEPT ![k][g] = Loop]
        /\ UNCHANGED <<running, closed>>

\* The application: Send waits for room in upperSendQ, Connect puts to helloSendQ.
Send ==
    /\ "upperSendQ" \in Queues
    /\ len["upperSendQ"] < Cap
    /\ len' = PutTo(len, "upperSendQ")
    /\ UNCHANGED <<running, closed, inst>>

Connect ==
    /\ "helloSendQ" \in Queues
    /\ len' = PutTo(len, "helloSendQ")
    /\ UNCHANGED <<running, closed, inst>>

\* A routine outside Kinds puts a packet to q, with or without backpressure.
Outside(q) ==
    /\ \E k \in DOMAIN Reads \ Kinds : q \in Puts[k] \/ (q \in Backpressure[k] /\ len[q] < Cap)
    /\ len' = PutTo(len, q)
    /\ UNCHANGED <<running, closed, inst>>

Step(k, g) == Enter(k, g) \/ Exit(k, g) \/ Take(k, g) \/ PutAfterWait(k, g)

NodeNext ==
    \/ Start
    \/ Stop
    \/ \E k \in Kinds, g \in Starts : Step(k, g)
    \/ Send
    \/ Connect
    \/ \E q \in Queues : Outside(q)

NodeSpec == NodeInit /\ [][NodeNext]_nodeVars

(***************************************************************************)
(* Goroutines are scheduled fairly.  select chooses at random among the    *)
(* cases that are ready, so a routine that comes back to a closed channel  *)
(* again and again leaves; senders that wait for one channel are served in *)
(* the order they came.                                                    *)
(***************************************************************************)
NodeFairness ==
    \A k \in Kinds, g \in Starts :
        /\ WF_nodeVars(Enter(k, g))
        /\ WF_nodeVars(Exit(k, g) \/ Take(k, g))
        /\ SF_nodeVars(Exit(k, g))
        /\ SF_nodeVars(PutAfterWait(k, g))

FairNodeSpec == NodeSpec /\ NodeFairness
----------------------------------------------------------------------------
\* Every variable keeps its type; no queue holds more than its capacity.
NodeTypeOK ==
    /\ running \in 0 .. MaxStarts
    /\ closed \subseteq Starts
    /\ inst \in [Kinds -> [Starts -> {None, Loop, Gone} \cup {Select(c) : c \in Starts}
                                        \cup {Waits(q) : q \in Queues}]]
    /\ len \in [Queues -> 0 .. Cap]

\* While the node runs, every queue has a routine that reads it and will not
\* leave, however Stop and Start raced with what the routines were doing.
Served ==
    Running => \A k \in Kinds : \E g \in Starts :
        \/ inst[k][g].at \in {"loop", "put"}
        \/ inst[k][g] = Select(running)

\* A routine that waits for room in a queue gets on while the node runs: the
\* routines do not wait for each other in a circle.
NoGridlock ==
    \A k \in Kinds, g \in Starts :
        inst[k][g].at = "put" ~> (inst[k][g].at # "put" \/ ~Running)

\* After Stop the routines leave, unless Start comes again or they wait for
\* room in a queue that nobody reads any more; RecvRoutine stays.
StopQuiets ==
    ~Running ~> \/ Running
                \/ \A k \in Kinds \ {"tptRecv"}, g \in Starts :
                     inst[k][g].at \in {"none", "gone", "put"}
=============================================================================
