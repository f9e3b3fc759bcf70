---------------------------- MODULE DaemonProofs ----------------------------
(***************************************************************************)
(* Proofs about Daemon, for any number of processes and any configs: the   *)
(* key and the config that `rovy init` leaves, the socket that             *)
(* `rovy start` takes, and what a daemon that is up has been configured to.*)
(***************************************************************************)
EXTENDS Daemon, TLAPS

\* The provers that a leaf is tried with, in turn, unless it names its own.
USE SMT, Zenon, SMTT(30), ZenonT(60), Z3T(30)

InitPlaces == {"statconfig", "openkey", "writekey", "openconfig", "writeconfig"}
StartPlaces == {"stat", "dial", "remove", "bind", "load", "listen", "fcnet", "linklocal",
                "nodestart", "up"}

\* A process runs one command, and two that are there at a time have met.
ProcInv ==
    /\ pc \in [Procs -> InitPlaces \cup StartPlaces \cup {"idle", "gone"}]
    /\ cmd \in [Procs -> Keys \cup {"none", "init"}]
    /\ met \in [Procs -> SUBSET Procs]
    /\ \A p \in Procs :
         /\ pc[p] \in InitPlaces => cmd[p] = "init"
         /\ pc[p] \in StartPlaces => cmd[p] \in Keys
         /\ pc[p] = "idle" => cmd[p] = "none"
         /\ \A q \in met[p] : pc[q] # "idle"
    /\ \A p, q \in Alive : p # q => q \in met[p]

\* A step of process p, as far as its command goes.
Moves(p, places) ==
    /\ pc[p] \in places
    /\ pc' = pc \/ \E at \in places \cup {"gone"} : pc' = [pc EXCEPT ![p] = at]
    /\ UNCHANGED <<cmd, met>>

ProcStep ==
    \/ \E p \in Procs : \/ \E at \in InitPlaces : Begin(p, "init", at)
                        \/ \E key \in Keys, at \in StartPlaces : Begin(p, key, at)
                        \/ Moves(p, InitPlaces) \/ Moves(p, StartPlaces)
    \/ UNCHANGED <<pc, cmd, met>>

LEMMA ProcStepKeeps == ProcInv /\ ProcStep => ProcInv'
<1> SUFFICES ASSUME ProcInv, ProcStep PROVE ProcInv'
  OBVIOUS
<1> USE DEF ProcInv, Alive, InitPlaces, StartPlaces, Keys
<1>1. ASSUME NEW p \in Procs, NEW at \in InitPlaces, Begin(p, "init", at) PROVE ProcInv'
  BY <1>1 DEF Begin, Goto
<1>2. ASSUME NEW p \in Procs, NEW key \in Keys, NEW at \in StartPlaces, Begin(p, key, at)
      PROVE  ProcInv'
  BY <1>2 DEF Begin, Goto
<1>3. ASSUME NEW p \in Procs, Moves(p, InitPlaces) PROVE ProcInv'
  BY <1>3 DEF Moves
<1>4. ASSUME NEW p \in Procs, Moves(p, StartPlaces) PROVE ProcInv'
  BY <1>4 DEF Moves
<1>5. CASE UNCHANGED <<pc, cmd, met>>
  BY <1>5
<1> HIDE DEF ProcInv
<1> QED BY <1>1, <1>2, <1>3, <1>4, <1>5 DEF ProcStep

LEMMA InitStepMoves == ASSUME NEW p \in Procs, InitStep(p) PROVE InitCmd(p) \/ Moves(p, InitPlaces)
BY DEF InitStep, InitStatConfig, OpenKey, WriteKey, OpenConfig, WriteConfig, Step, Exit, Leave, Goto,
       Moves, InitPlaces

LEMMA StartStepMoves ==
    ASSUME NEW p \in Procs, StartStep(p)
    PROVE  (\E key \in Keys : StartCmd(p, key)) \/ Moves(p, StartPlaces)
<1> USE DEF Moves, StartPlaces, Step, Exit, Leave, Goto
<1>1. CASE Stat(p) \/ Dial(p) \/ Remove(p) \/ Bind(p)
  BY <1>1 DEF Stat, Dial, Remove, Bind
<1>2. CASE LoadConfig(p)
  BY <1>2 DEF LoadConfig
<1>3. CASE ConfigurePeering(p)
  BY <1>3 DEF ConfigurePeering
<1>4. CASE ConfigureFcnet(p)
  BY <1>4 DEF ConfigureFcnet
<1>5. CASE ConfigureLinkLocal(p)
  BY <1>5 DEF ConfigureLinkLocal
<1>6. CASE NodeStart(p)
  BY <1>6 DEF NodeStart
<1> QED BY <1>1, <1>2, <1>3, <1>4, <1>5, <1>6 DEF StartStep, Keys

LEMMA NextIsProcStep == ProcInv /\ [Next]_vars => ProcStep
<1> SUFFICES ASSUME ProcInv, [Next]_vars PROVE ProcStep
  OBVIOUS
<1>1. ASSUME NEW p \in Procs, InitStep(p) PROVE ProcStep
  BY <1>1, InitStepMoves DEF InitCmd, ProcStep, InitPlaces
<1>2. ASSUME NEW p \in Procs, StartStep(p) PROVE ProcStep
  BY <1>2, StartStepMoves DEF StartCmd, ProcStep, StartPlaces
<1>3. ASSUME NEW p \in Procs, Crash(p) PROVE ProcStep
  <2>1. pc[p] \in InitPlaces \/ pc[p] \in StartPlaces
    BY <1>3 DEF Crash, Alive, ProcInv
  <2> QED BY <1>3, <2>1, ZenonT(60) DEF Crash, Exit, Leave, Goto, ProcStep, Moves
<1>4. CASE UserStep \/ (\E c \in Configs : EditConfig(c)) \/ UNCHANGED vars
  BY <1>4 DEF UserStep, PeerListen, StopCmd, EditConfig, vars, ProcStep
<1> QED BY <1>1, <1>2, <1>3, <1>4 DEF Next

\* What a command has met it has met for good, and what it is does not change.
LEMMA History ==
    ASSUME ProcInv, ProcStep, NEW p \in Procs, pc[p] # "idle"
    PROVE  /\ cmd'[p] = cmd[p] /\ pc'[p] # "idle"
           /\ pc[p] = "gone" => pc'[p] = "gone"
           /\ met[p] \subseteq met'[p]
<1> USE DEF ProcInv, InitPlaces, StartPlaces
<1>1. ASSUME NEW q \in Procs, NEW c, NEW at \in InitPlaces \cup StartPlaces, Begin(q, c, at)
      PROVE  /\ cmd'[p] = cmd[p] /\ pc'[p] = pc[p]
             /\ met[p] \subseteq met'[p]
  BY <1>1 DEF Begin, Goto
<1>2. ASSUME NEW q \in Procs, NEW places \in {InitPlaces, StartPlaces}, Moves(q, places)
      PROVE  /\ cmd'[p] = cmd[p] /\ pc'[p] # "idle"
             /\ pc[p] = "gone" => pc'[p] = "gone"
             /\ met[p] \subseteq met'[p]
  BY <1>2 DEF Moves
<1> QED BY <1>1, <1>2 DEF ProcStep

----------------------------------------------------------------------------
(***************************************************************************)
(* The files.  A keyfile that was written stands since a time when its     *)
(* init was past the key, and an init that could still replace it has met  *)
(* that one.                                                               *)
(***************************************************************************)
BeforeKey == {"statconfig", "openkey", "writekey"}

InitsMet == \E p, q \in Procs : cmd[p] = "init" /\ cmd[q] = "init" /\ q \in met[p]

FilesInv ==
    /\ keyfile \in Procs \cup {None, "empty"}
    /\ keyfile \in Procs => pc[keyfile] \in {"openconfig", "writeconfig", "gone"}
    /\ \A p \in Procs : pc[p] \in BeforeKey /\ keyfile \in Procs => keyfile \in met[p]
    /\ \/ InitsMet
       \/ /\ config # None => keyfile \in Procs
          /\ \A p \in Procs :
               /\ pc[p] \in {"openkey", "writekey"} => config = None
               /\ pc[p] \in {"openconfig", "writeconfig"} => keyfile \in Procs

LEMMA InitsMetForGood == ProcInv /\ ProcStep /\ InitsMet => InitsMet'
<1> SUFFICES ASSUME ProcInv, ProcStep, NEW p \in Procs, NEW q \in Procs,
                    cmd[p] = "init", cmd[q] = "init", q \in met[p]
             PROVE  InitsMet'
  BY DEF InitsMet
<1>1. pc[p] # "idle" /\ pc[q] # "idle"
  BY DEF ProcInv
<1> QED BY <1>1, History DEF InitsMet

\* A step that leaves the files alone, and no init further on.
LEMMA FilesAside ==
    ASSUME ProcInv, FilesInv, ProcStep, UNCHANGED files,
           \A q \in Procs : pc'[q] = pc[q] \/ pc'[q] \notin InitPlaces
    PROVE  FilesInv'
<1>1. UNCHANGED <<keyfile, config>>
  BY DEF files
<1>2. keyfile \in Procs => pc[keyfile] # "idle"
  BY DEF FilesInv
<1>3. keyfile \in Procs => pc'[keyfile] \in {"openconfig", "writeconfig", "gone"}
  <2>1. ASSUME NEW k \in Procs, pc[k] \in {"openconfig", "writeconfig", "gone"},
               pc'[k] # pc[k]
        PROVE  pc'[k] = "gone"
    <3>1. pc[k] \notin StartPlaces /\ pc[k] # "idle"
      BY <2>1 DEF StartPlaces
    <3> QED BY <2>1, <3>1 DEF ProcStep, Begin, Goto, Moves, InitPlaces, ProcInv
  <2> QED BY <2>1 DEF FilesInv
<1>4. ASSUME NEW p \in Procs, pc'[p] \in InitPlaces PROVE pc[p] = pc'[p] /\ met[p] \subseteq met'[p]
  BY <1>4, History DEF InitPlaces
<1>5. InitsMet => InitsMet'
  BY InitsMetForGood
<1> QED BY <1>1, <1>3, <1>4, <1>5 DEF FilesInv, InitPlaces, BeforeKey

LEMMA TwoInits ==
    ASSUME ProcInv, NEW p \in Procs, NEW q \in Procs, p # q,
           pc[p] \in InitPlaces, pc[q] \in InitPlaces
    PROVE  InitsMet
BY DEF ProcInv, InitsMet, Alive, InitPlaces

LEMMA InitStepFiles ==
    ASSUME ProcInv, ProcStep, FilesInv, NEW p \in Procs, InitStep(p) PROVE FilesInv'
<1> USE DEF FilesInv, InitPlaces, BeforeKey, Step, Goto
<1>1. InitsMet => InitsMet'
  BY InitsMetForGood
<1>2. pc \in [Procs -> InitPlaces \cup StartPlaces \cup {"idle", "gone"}] /\ met \in [Procs -> SUBSET Procs]
  BY DEF ProcInv
<1>3. \A q \in Procs : pc[p] \in InitPlaces /\ pc[q] \in InitPlaces => q = p \/ InitsMet
  BY TwoInits
<1>4. None \notin Procs /\ "empty" \notin Procs
  BY DaemonAssumption
<1>5. \A q \in Procs : pc[p] \in InitPlaces /\ pc[q] \in InitPlaces /\ p # q => q \in met[p]
  BY DEF ProcInv, Alive
<1>6. CASE InitCmd(p)
  <2>1. keyfile = None /\ UNCHANGED <<keyfile, config>> /\ pc' = [pc EXCEPT ![p] = "statconfig"]
    BY <1>6 DEF InitCmd, Begin, files
  <2> QED BY <1>1, <1>2, <1>4, <2>1
<1>7. CASE InitStatConfig(p)
  <2>1. UNCHANGED <<keyfile, config>> /\ pc[p] = "statconfig" /\ UNCHANGED <<met, cmd>>
    BY <1>7 DEF InitStatConfig, files, Exit, Leave
  <2>2. CASE config = None /\ pc' = [pc EXCEPT ![p] = "openkey"]
    BY <1>1, <1>2, <1>3, <2>1, <2>2 DEF InitsMet
  <2>3. CASE pc' = [pc EXCEPT ![p] = "gone"]
    BY <1>1, <1>2, <2>1, <2>3 DEF InitsMet
  <2> QED BY <1>7, <2>2, <2>3 DEF InitStatConfig, Exit, Leave
<1>8. CASE OpenKey(p)
  BY <1>1, <1>2, <1>3, <1>4, <1>8 DEF OpenKey, InitsMet
<1>9. CASE WriteKey(p)
  <2>1. \A q \in Procs : pc'[q] \in BeforeKey => p \in met[q]
    BY <1>2, <1>9 DEF WriteKey, ProcInv, Alive
  <2> QED BY <1>1, <1>2, <1>3, <1>4, <1>9, <2>1 DEF WriteKey, InitsMet
<1>10. CASE OpenConfig(p)
  BY <1>1, <1>2, <1>3, <1>10 DEF OpenConfig, InitsMet
<1>11. CASE WriteConfig(p)
  BY <1>1, <1>2, <1>3, <1>11 DEF WriteConfig, Exit, Leave, InitsMet
<1> HIDE DEF FilesInv
<1> QED BY <1>6, <1>7, <1>8, <1>9, <1>10, <1>11 DEF InitStep

LEMMA StepKeepsFiles == ProcInv /\ FilesInv /\ [Next]_vars => FilesInv'
<1> SUFFICES ASSUME ProcInv, FilesInv, [Next]_vars PROVE FilesInv'
  OBVIOUS
<1>0. ProcStep
  BY NextIsProcStep
<1>1. ASSUME NEW p \in Procs, InitStep(p) PROVE FilesInv'
  BY <1>0, <1>1, InitStepFiles
<1>2. ASSUME NEW p \in Procs, StartStep(p) PROVE FilesInv'
  <2>1. UNCHANGED files
    BY <1>2 DEF StartStep, StartCmd, Begin, Stat, Dial, Remove, Bind, LoadConfig, ConfigurePeering,
                ConfigureFcnet, ConfigureLinkLocal, NodeStart
  <2>2. \A q \in Procs : pc'[q] = pc[q] \/ pc'[q] \notin InitPlaces
    BY <1>2, StartStepMoves DEF StartCmd, Begin, Goto, Moves, InitPlaces, StartPlaces, ProcInv
  <2> QED BY <1>0, <2>1, <2>2, FilesAside
<1>3. ASSUME NEW p \in Procs, Crash(p) PROVE FilesInv'
  BY <1>0, <1>3, FilesAside DEF Crash, Exit, Leave, Goto, InitPlaces, ProcInv
<1>4. CASE UserStep \/ UNCHANGED vars
  BY <1>0, <1>4, FilesAside DEF UserStep, PeerListen, StopCmd, vars
<1>5. ASSUME NEW c \in Configs, EditConfig(c) PROVE FilesInv'
  BY <1>5 DEF EditConfig, FilesInv, InitsMet
<1> QED BY <1>1, <1>2, <1>3, <1>4, <1>5 DEF Next

LEMMA InitFiles == Init => ProcInv /\ FilesInv
BY DaemonAssumption DEF Init, ProcInv, FilesInv, Alive, InitPlaces, StartPlaces, BeforeKey, Keys

\* initCmdFunc (init.go) looks for both files before it writes: with any number
\* of commands, killed at any step, the key that one init has written is
\* replaced only by an init that overlapped it.
THEOREM KeyIsKept == Spec => KeyKept
<1>1. ProcInv /\ FilesInv /\ [Next]_vars
        => [(keyfile \in Procs /\ keyfile' # keyfile)
              => \E p \in Procs : (cmd[p] = "init" /\ keyfile \in met[p])]_vars
  <2> SUFFICES ASSUME ProcInv, FilesInv, Next, keyfile \in Procs, keyfile' # keyfile
               PROVE  \E p \in Procs : (cmd[p] = "init" /\ keyfile \in met[p])
    BY ZenonT(60)
  <2>1. PICK p \in Procs : OpenKey(p) \/ WriteKey(p)
    BY DEF Next, InitStep, InitCmd, InitStatConfig, OpenConfig, WriteConfig, StartStep, StartCmd,
           Begin, Stat, Dial, Remove, Bind, LoadConfig, ConfigurePeering, ConfigureFcnet,
           ConfigureLinkLocal, NodeStart, Crash, UserStep, PeerListen, StopCmd, EditConfig, files
  <2>2. pc[p] \in BeforeKey
    BY <2>1 DEF OpenKey, WriteKey, BeforeKey
  <2> QED BY <2>2 DEF FilesInv, ProcInv, InitPlaces, BeforeKey
<1> QED BY <1>1, InitFiles, NextIsProcStep, ProcStepKeeps, StepKeepsFiles, PTL DEF Spec, KeyKept

\* SaveKeyfile comes before SaveConfig (init.go): wherever commands are killed,
\* a config stands only beside a complete key, unless two inits overlapped.
THEOREM KeyComesFirst == Spec => []KeyBeforeConfig
<1>1. FilesInv => KeyBeforeConfig
  BY DEF FilesInv, KeyBeforeConfig, InitsMet
<1> QED BY <1>1, InitFiles, NextIsProcStep, ProcStepKeeps, StepKeepsFiles, PTL DEF Spec

----------------------------------------------------------------------------
(***************************************************************************)
(* The socket.  It belongs to a start command that serves or is gone, and  *)
(* one that is about to remove it has found that its owner was gone; if it *)
(* is another's by then, the two have met.                                 *)
(***************************************************************************)
GoneStart(r) == cmd[r] \in Keys /\ pc[r] = "gone"

SocketInv ==
    /\ path \in Procs \cup {None}
    /\ path \in Procs => Serving(path) \/ GoneStart(path)
    /\ \A q \in Procs : pc[q] = "remove" => \E r \in Procs \ {q} : GoneStart(r)
    /\ robbed \subseteq Procs
    /\ \A p \in robbed : pc[p] # "idle"
    /\ SocketKept

LEMMA GoneForGood == ASSUME ProcInv, ProcStep, NEW r \in Procs, GoneStart(r) PROVE GoneStart(r)'
BY History DEF GoneStart, ProcInv

LEMMA KeptForGood ==
    ASSUME ProcInv, ProcStep, SocketInv, NEW p \in robbed
    PROVE  /\ p \in Procs /\ pc'[p] # "idle"
           /\ (\E q \in met[p] : cmd[q] \in Keys /\ \E r \in Procs \ {p, q} :
                 cmd[r] \in Keys /\ pc[r] = "gone")'
<1>1. p \in Procs /\ pc[p] # "idle"
  BY DEF SocketInv
<1>2. PICK q \in met[p] : cmd[q] \in Keys /\ \E r \in Procs \ {p, q} : GoneStart(r)
  BY DEF SocketInv, SocketKept, GoneStart
<1>3. PICK r \in Procs \ {p, q} : GoneStart(r)
  BY <1>2
<1>4. q \in Procs /\ pc[q] # "idle"
  BY <1>1 DEF ProcInv
<1>5. q \in met'[p] /\ cmd'[q] \in Keys /\ pc'[p] # "idle"
  BY <1>1, <1>2, <1>4, History
<1>6. GoneStart(r)'
  BY <1>3, GoneForGood
<1> QED BY <1>1, <1>5, <1>6 DEF GoneStart

\* A command that serves goes on serving, or goes.
LEMMA NoWayBack ==
    ASSUME ProcInv, [Next]_vars, NEW q \in Procs, Serving(q) \/ pc[q] = "gone"
    PROVE  Serving(q)' \/ pc'[q] = "gone"
<1> USE DEF Serving
<1>0. pc \in [Procs -> InitPlaces \cup StartPlaces \cup {"idle", "gone"}]
  BY DEF ProcInv
<1>1. ASSUME NEW p \in Procs, InitStep(p) PROVE Serving(q)' \/ pc'[q] = "gone"
  BY <1>0, <1>1, InitStepMoves DEF InitCmd, Begin, Goto, Moves, InitPlaces
<1>2. ASSUME NEW p \in Procs, StartStep(p) PROVE Serving(q)' \/ pc'[q] = "gone"
  <2>1. CASE p # q
    BY <1>0, <1>2, <2>1, StartStepMoves, ZenonT(60) DEF StartCmd, Begin, Goto, Moves
  <2>2. CASE p = q
    <3> USE <2>2
    <3>1. LoadConfig(q) \/ ConfigurePeering(q) \/ ConfigureFcnet(q) \/ ConfigureLinkLocal(q)
            \/ NodeStart(q)
      BY <1>2 DEF StartStep, StartCmd, Begin, Stat, Dial, Remove, Bind
    <3> QED BY <1>0, <3>1 DEF LoadConfig, ConfigurePeering, ConfigureFcnet, ConfigureLinkLocal,
                              NodeStart, Step, Exit, Leave, Goto
  <2> QED BY <2>1, <2>2
<1>3. ASSUME NEW p \in Procs, Crash(p) PROVE Serving(q)' \/ pc'[q] = "gone"
  BY <1>0, <1>3 DEF Crash, Exit, Leave, Goto
<1>4. CASE UserStep \/ (\E c \in Configs : EditConfig(c)) \/ UNCHANGED vars
  BY <1>4 DEF UserStep, PeerListen, StopCmd, EditConfig, vars
<1> HIDE DEF Serving
<1> QED BY <1>1, <1>2, <1>3, <1>4 DEF Next

\* What every step keeps of SocketInv, whoever has the socket.
LEMMA SocketLasts ==
    ASSUME ProcInv, [Next]_vars, SocketInv
    PROVE  /\ \A r \in Procs : Serving(r) \/ GoneStart(r) => Serving(r)' \/ GoneStart(r)'
           /\ \A q \in Procs : pc[q] = "remove" => \E r \in Procs \ {q} : GoneStart(r)'
           /\ \A p \in robbed : p \in Procs /\ pc'[p] # "idle"
           /\ \A p \in robbed :
                (\E q \in met[p] : cmd[q] \in Keys /\ \E r \in Procs \ {p, q} :
                   cmd[r] \in Keys /\ pc[r] = "gone")'
<1>0. ProcStep
  BY NextIsProcStep
<1>1. ASSUME NEW r \in Procs, Serving(r) \/ GoneStart(r) PROVE Serving(r)' \/ GoneStart(r)'
  <2>1. pc[r] # "idle" /\ cmd[r] \in Keys
    BY <1>1 DEF Serving, GoneStart, ProcInv, StartPlaces
  <2> QED BY <1>0, <1>1, <2>1, History, NoWayBack DEF GoneStart
<1>2. ASSUME NEW q \in Procs, pc[q] = "remove" PROVE \E r \in Procs \ {q} : GoneStart(r)'
  BY <1>0, <1>2, GoneForGood DEF SocketInv
<1> QED BY <1>0, <1>1, <1>2, KeptForGood

LEMMA StepKeepsSocket == ProcInv /\ SocketInv /\ [Next]_vars => SocketInv'
<1> SUFFICES ASSUME ProcInv, SocketInv, [Next]_vars PROVE SocketInv'
  OBVIOUS
<1>0. pc \in [Procs -> InitPlaces \cup StartPlaces \cup {"idle", "gone"}]
  BY DEF ProcInv
<1>a. None \notin Procs
  BY DaemonAssumption, ZenonT(60)
<1>1. ASSUME UNCHANGED <<path, robbed>>, \A q \in Procs : pc'[q] = "remove" => pc[q] = "remove"
      PROVE  SocketInv'
  <2>1. \A r \in Procs : r = path => (Serving(r) \/ GoneStart(r)) /\ (Serving(r)' \/ GoneStart(r)')
    BY SocketLasts DEF SocketInv
  <2> QED BY <1>1, <2>1, SocketLasts DEF SocketInv, SocketKept, Serving, GoneStart
<1>2. ASSUME NEW p \in Procs, InitStep(p) PROVE SocketInv'
  <2>1. UNCHANGED <<path, robbed>>
    BY <1>2 DEF InitStep, InitCmd, Begin, InitStatConfig, OpenKey, WriteKey, OpenConfig, WriteConfig
  <2>2. \A q \in Procs : pc'[q] = "remove" => pc[q] = "remove"
    BY <1>0, <1>2, InitStepMoves DEF InitCmd, Begin, Goto, Moves, InitPlaces
  <2> QED BY <1>1, <2>1, <2>2
<1>3. ASSUME NEW p \in Procs, Dial(p) PROVE SocketInv'
  <2>1. CASE path # None /\ ~Serving(path) /\ pc' = [pc EXCEPT ![p] = "remove"]
    <3>1. path \in Procs /\ GoneStart(path) /\ path # p
      BY <1>3, <2>1 DEF SocketInv, GoneStart, Dial
    <3>2. UNCHANGED <<cmd, met, path, robbed>>
      BY <1>3, <2>1 DEF Dial, Step, Exit, Leave
    <3>3. GoneStart(path)'
      BY <1>0, <2>1, <3>1, <3>2 DEF GoneStart
    <3> QED BY <1>0, <2>1, <3>1, <3>2, <3>3, SocketLasts DEF SocketInv, SocketKept, GoneStart
  <2>2. CASE pc' = [pc EXCEPT ![p] = "gone"]
    BY <1>0, <1>1, <1>3, <2>2, ZenonT(60) DEF Dial
  <2> QED BY <1>3, <2>1, <2>2, ZenonT(60) DEF Dial, Step, Exit, Leave, Goto
<1>4. ASSUME NEW p \in Procs, Remove(p) PROVE SocketInv'
  <2>1. pc[p] = "remove" /\ path' = None /\ pc'[p] # "remove"
        /\ robbed' = robbed \cup {q \in Procs : q = path /\ Serving(q)}
        /\ \A q \in Procs : pc'[q] = "remove" => pc[q] = "remove"
    BY <1>0, <1>4 DEF Remove, Step, Exit, Leave, Goto
  <2>2. UNCHANGED <<cmd, met>>
    BY <1>4 DEF Remove, Step, Exit, Leave
  <2>3. ASSUME NEW x \in Procs, x = path, Serving(x)
        PROVE  /\ pc'[x] # "idle"
               /\ (\E q \in met[x] : cmd[q] \in Keys /\ \E r \in Procs \ {x, q} :
                     cmd[r] \in Keys /\ pc[r] = "gone")'
    <3>1. p # x /\ p \in met[x] /\ cmd[p] \in Keys
      BY <2>1, <2>3 DEF Serving, ProcInv, Alive, StartPlaces
    <3>2. PICK r \in Procs \ {p} : GoneStart(r) /\ GoneStart(r)'
      BY <2>1, GoneForGood, NextIsProcStep DEF SocketInv
    <3>3. r # x
      BY <2>3, <3>2 DEF Serving, GoneStart
    <3>4. pc'[x] # "idle"
      BY <2>3, NextIsProcStep, History DEF Serving
    <3> QED BY <2>2, <3>1, <3>2, <3>3, <3>4 DEF GoneStart
  <2>4. SocketKept'
    BY <2>1, <2>3, SocketLasts DEF SocketKept
  <2> QED BY <1>a, <2>1, <2>3, <2>4, SocketLasts DEF SocketInv
<1>5. ASSUME NEW p \in Procs, Bind(p) PROVE SocketInv'
  <2>1. CASE path = None /\ path' = p /\ pc' = [pc EXCEPT ![p] = "load"]
    <3>1. Serving(p)' /\ robbed' = robbed
      BY <1>0, <1>5, <2>1 DEF Bind, Serving
    <3>2. \A q \in Procs : pc'[q] = "remove" => pc[q] = "remove"
      BY <1>0, <2>1
    <3> QED BY <2>1, <3>1, <3>2, SocketLasts DEF SocketInv, SocketKept, Serving
  <2>2. CASE UNCHANGED path /\ pc' = [pc EXCEPT ![p] = "gone"]
    BY <1>0, <1>1, <1>5, <2>2 DEF Bind
  <2> QED BY <1>5, <2>1, <2>2, ZenonT(60) DEF Bind, Step, Exit, Leave, Goto
<1>6. ASSUME NEW p \in Procs,
             (\E key \in {"file", "@", "-"} : StartCmd(p, key)) \/ Stat(p) \/ LoadConfig(p)
               \/ ConfigurePeering(p) \/ ConfigureFcnet(p) \/ ConfigureLinkLocal(p)
               \/ NodeStart(p) \/ Crash(p)
      PROVE  SocketInv'
  <2>1. UNCHANGED <<path, robbed>>
    BY <1>6, ZenonT(60) DEF StartCmd, Begin, Stat, LoadConfig, ConfigurePeering, ConfigureFcnet,
                ConfigureLinkLocal, NodeStart, Crash
  <2>2. \A q \in Procs : pc'[q] = "remove" => pc[q] = "remove"
    BY <1>0, <1>6 DEF StartCmd, Begin, Stat, LoadConfig, ConfigurePeering, ConfigureFcnet,
                      ConfigureLinkLocal, NodeStart, Crash, Step, Exit, Leave, Goto
  <2> QED BY <1>1, <2>1, <2>2
<1>7. CASE UserStep \/ (\E c \in Configs : EditConfig(c)) \/ UNCHANGED vars
  BY <1>1, <1>7 DEF UserStep, PeerListen, StopCmd, EditConfig, vars
<1> QED BY <1>2, <1>3, <1>4, <1>5, <1>6, <1>7 DEF Next, StartStep

LEMMA InitSocket == Init => SocketInv
BY DaemonAssumption DEF Init, SocketInv, SocketKept

\* checkSocket (start.go) dials and then removes: with any number of commands,
\* a living daemon loses its socket only to a start that overlapped it, and
\* only if a third had left one behind.
THEOREM SocketIsKept == Spec => []SocketKept
<1>1. SocketInv => SocketKept
  BY DEF SocketInv
<1> QED BY <1>1, InitFiles, InitSocket, NextIsProcStep, ProcStepKeeps, StepKeepsSocket, PTL DEF Spec

----------------------------------------------------------------------------
(***************************************************************************)
(* The configuration.  While no daemon is robbed of its socket, one that   *)
(* serves has it, so that the requests by which it configures itself reach *)
(* itself; what it wants is done or still in the config it goes through.   *)
(***************************************************************************)
IsSeq(s) == \E S : s \in Seq(S)

IsConfig(c) ==
    /\ c = [listen |-> c.listen, fcnet |-> c.fcnet, linklocal |-> c.linklocal]
    /\ IsSeq(c.listen)

ConfTypes ==
    /\ config = None \/ IsConfig(config)
    /\ DOMAIN cfg = Procs /\ cfg = [p \in Procs |-> cfg[p]]
    /\ DOMAIN wanted = Procs /\ wanted = [p \in Procs |-> wanted[p]]
    /\ \A p \in Procs : IsConfig(cfg[p]) /\ IsConfig(wanted[p])
    /\ conn \in [Procs -> Procs \cup {None}]
    /\ listens = [p \in Procs |-> listens[p]]
    /\ linklocal = [p \in Procs |-> linklocal[p]]

Heard(p, t) == \E l \in listens[p] : l.text = t
Listed(t, texts) == \E j \in DOMAIN texts : texts[j] = t

Conf(p) ==
    /\ IF Serving(p) THEN path = p /\ conn[p] \in {None, p} ELSE conn[p] = None
    /\ pc[p] \in InitPlaces \cup {"idle", "stat", "dial", "remove", "bind", "load"}
         => wanted[p] = NoConfig
    /\ pc[p] = "listen" => \A i \in DOMAIN wanted[p].listen :
         Heard(p, wanted[p].listen[i]) \/ Listed(wanted[p].listen[i], cfg[p].listen)
    /\ pc[p] \in {"fcnet", "linklocal", "nodestart", "up"} =>
         \A i \in DOMAIN wanted[p].listen : Heard(p, wanted[p].listen[i])
    /\ pc[p] \in {"listen", "fcnet", "linklocal"} => cfg[p].linklocal = wanted[p].linklocal
    /\ pc[p] \in {"nodestart", "up"} /\ wanted[p].linklocal => linklocal[p]

ConfInv == ConfTypes /\ (robbed = {} => \A p \in Procs : Conf(p))

LEMMA TailOfTexts ==
    ASSUME NEW s, IsSeq(s), s # <<>>
    PROVE  IsSeq(Tail(s)) /\ \A i \in DOMAIN s : s[i] = Head(s) \/ Listed(s[i], Tail(s))
<1>1. PICK S : s \in Seq(S)
  BY DEF IsSeq
<1>2. Tail(s) \in Seq(S)
  BY <1>1
<1>3. ASSUME NEW i \in 1..Len(s), i # 1 PROVE i - 1 \in 1..Len(Tail(s)) /\ s[i] = Tail(s)[i - 1]
  BY <1>1, <1>3
<1>4. ASSUME NEW i \in DOMAIN s PROVE s[i] = Head(s) \/ Listed(s[i], Tail(s))
  <2>1. CASE i = 1
    BY <1>1, <2>1
  <2>2. CASE i # 1
    <3>1. DOMAIN s = 1..Len(s) /\ DOMAIN Tail(s) = 1..Len(Tail(s))
      BY <1>1, <1>2
    <3>2. i - 1 \in DOMAIN Tail(s) /\ Tail(s)[i - 1] = s[i]
      BY <1>3, <2>2, <3>1
    <3> QED BY <3>2 DEF Listed
  <2> QED BY <2>1, <2>2
<1>5. IsSeq(Tail(s))
  BY <1>2 DEF IsSeq
<1> QED BY <1>4, <1>5

LEMMA TheConfigs ==
    /\ IsConfig(NoConfig) /\ IsConfig(DefaultConfig) /\ \A c \in Configs : IsConfig(c)
    /\ NoConfig.listen = <<>> /\ ~NoConfig.linklocal
<1>1. <<>> \in Seq({}) /\ NoConfig.listen = <<>>
  BY DEF NoConfig
<1>2. \E S : DefaultConfig.listen \in Seq(S)
  <2>1. \A x, y : <<x, y>> \in Seq({x, y})
    OBVIOUS
  <2>2. PICK x, y : DefaultConfig.listen = <<x, y>>
    BY DEF DefaultConfig
  <2>3. DefaultConfig.listen \in Seq({x, y})
    BY <2>1, <2>2
  <2> QED BY <2>3
<1>3. IsConfig(NoConfig)
  BY <1>1 DEF NoConfig, IsConfig, IsSeq
<1>4. IsConfig(DefaultConfig)
  BY <1>2 DEF DefaultConfig, IsConfig, IsSeq
<1>5. \A c \in Configs : IsConfig(c)
  <2> SUFFICES ASSUME NEW c \in Configs PROVE IsConfig(c)
    OBVIOUS
  <2>1. c.listen \in Seq({c.listen[i] : i \in DOMAIN c.listen})
    BY DaemonAssumption
  <2>2. IsSeq(c.listen)
    BY <2>1 DEF IsSeq
  <2> QED BY <2>2, DaemonAssumption, ZenonT(60) DEF IsConfig
<1> QED BY <1>1, <1>3, <1>4, <1>5 DEF NoConfig

\* A daemon that serves reaches itself.
LEMMA ReachesItself ==
    ASSUME ConfInv, robbed = {}, NEW p \in Procs, Serving(p) PROVE Reached(p) = {p}
BY DaemonAssumption DEF ConfInv, Conf, Reached

\* What a step leaves of the others: p is the one that acts.
Leaves(d) ==
    /\ pc'[d] = pc[d] /\ cfg'[d] = cfg[d] /\ conn'[d] = conn[d] /\ wanted'[d] = wanted[d]
    /\ listens[d] \subseteq listens'[d]
    /\ linklocal[d] => linklocal'[d]
    /\ Serving(d) /\ path = d => path' = d

LEMMA LeftAsItWas == ASSUME NEW d \in Procs, Conf(d), Leaves(d) PROVE Conf(d)'
<1>1. \A t : Heard(d, t) => Heard(d, t)'
  BY DEF Heard, Leaves
<1>2. Serving(d)' <=> Serving(d)
  BY ZenonT(60) DEF Serving, Leaves
<1> QED BY <1>1, <1>2, ZenonT(60) DEF Conf, Leaves

LEMMA InitStepConf ==
    ASSUME ProcInv, ConfInv, NEW p \in Procs, InitStep(p)
    PROVE  ConfInv'
<1> USE DEF ProcInv, ConfInv, ConfTypes
<1>1. CASE InitCmd(p)
  <2>1. UNCHANGED <<config, path, cfg, conn, listens, linklocal, robbed, wanted>>
        /\ pc[p] = "idle" /\ pc' = [pc EXCEPT ![p] = "statconfig"]
    BY <1>1, ZenonT(60) DEF InitCmd, Begin, Goto, files, node
  <2>2. Conf(p) => Conf(p)'
    BY <2>1 DEF Conf, Serving, InitPlaces
  <2>3. ASSUME NEW d \in Procs, d # p PROVE Leaves(d)
    BY <2>1, <2>3 DEF Leaves
  <2> QED BY <2>1, <2>2, <2>3, LeftAsItWas
<1>2. CASE ~InitCmd(p)
  <2>1. /\ pc[p] \in InitPlaces /\ UNCHANGED <<path, robbed, wanted>>
        /\ config' \in {config, NoConfig, DefaultConfig}
    BY <1>2, ZenonT(60) DEF InitStep, InitStatConfig, OpenKey, WriteKey, OpenConfig, WriteConfig, InitPlaces,
                Step, Exit, Leave, files
  <2>2. \/ /\ \E at \in InitPlaces : pc' = [pc EXCEPT ![p] = at]
           /\ UNCHANGED <<cfg, conn, listens, linklocal>>
        \/ /\ pc' = [pc EXCEPT ![p] = "gone"]
           /\ cfg' = [cfg EXCEPT ![p] = NoConfig] /\ conn' = [conn EXCEPT ![p] = None]
           /\ listens' = [listens EXCEPT ![p] = {}] /\ linklocal' = [linklocal EXCEPT ![p] = FALSE]
    BY <1>2 DEF InitStep, InitStatConfig, OpenKey, WriteKey, OpenConfig, WriteConfig, InitPlaces,
                Step, Exit, Leave, Goto, node
  <2>3. ConfTypes'
    BY <2>1, <2>2, TheConfigs
  <2>4. ASSUME NEW d \in Procs, d # p PROVE Leaves(d)
    BY <2>1, <2>2, <2>4, ZenonT(60) DEF Leaves
  <2>5. Conf(p) => Conf(p)'
    BY <2>1, <2>2 DEF Conf, Serving, InitPlaces
  <2> QED BY <2>1, <2>3, <2>4, <2>5, LeftAsItWas, ZenonT(60)
<1> QED BY <1>1, <1>2

LEMMA ExitConf ==
    ASSUME ProcInv, ConfInv, NEW p \in Procs, Exit(p), UNCHANGED <<config, path, robbed>>
    PROVE  ConfInv'
<1> USE DEF ProcInv, ConfInv, ConfTypes, Exit, Leave, Goto
<1>1. ConfTypes'
  BY TheConfigs, ZenonT(60)
<1>2. ASSUME NEW d \in Procs, d # p PROVE Leaves(d)
  BY <1>2, ZenonT(60) DEF Leaves
<1>3. Conf(p)'
  BY ZenonT(60) DEF Conf, Serving, InitPlaces
<1> QED BY <1>1, <1>2, <1>3, LeftAsItWas

\* The steps of checkSocket and startAPI.
LEMMA TakeSocketConf ==
    ASSUME ProcInv, SocketInv, ConfInv, NEW p \in Procs,
           (\E key \in Keys : StartCmd(p, key)) \/ Stat(p) \/ Dial(p) \/ Remove(p) \/ Bind(p)
    PROVE  ConfInv'
<1> USE DEF ProcInv, ConfInv, ConfTypes
<1>a. None \notin Procs
  BY DaemonAssumption
<1>1. ASSUME UNCHANGED <<config, cfg, conn, listens, linklocal, wanted>>, robbed \subseteq robbed',
             pc[p] \in {"idle", "stat", "dial", "remove", "bind"},
             NEW at \in {"stat", "dial", "remove", "bind"}, pc' = [pc EXCEPT ![p] = at],
             \A d \in Procs : robbed' = {} /\ Serving(d) /\ path = d => path' = d
      PROVE  ConfInv'
  <2>1. ASSUME NEW d \in Procs, d # p, robbed' = {} PROVE Leaves(d)
    BY <1>1, <2>1, ZenonT(60) DEF Leaves
  <2>2. Conf(p) => Conf(p)'
    BY <1>1 DEF Conf, Serving, InitPlaces
  <2>3. robbed' = {} => robbed = {}
    BY <1>1
  <2>4. ConfTypes'
    BY <1>1, ZenonT(60)
  <2> QED BY <2>1, <2>2, <2>3, <2>4, LeftAsItWas
<1>2. ASSUME NEW key \in Keys, StartCmd(p, key) PROVE ConfInv'
  BY <1>1, <1>2 DEF StartCmd, Begin, Goto, files, node
<1>3. CASE Stat(p)
  BY <1>1, <1>3, ZenonT(60) DEF Stat, Step, Goto, files, node
<1>4. CASE Dial(p)
  <2>1. CASE Exit(p)
    BY <1>4, <2>1, ExitConf, ZenonT(60) DEF Dial, files
  <2>2. CASE Step(p, "remove")
    BY <1>1, <1>4, <2>2, ZenonT(60) DEF Dial, Step, Goto, files, node
  <2> QED BY <1>4, <2>1, <2>2, ZenonT(60) DEF Dial
<1>5. CASE Remove(p)
  <2>1. CASE path = None
    <3>1. robbed' = robbed /\ path' = path /\ config' = config /\ Exit(p)
      BY <1>5, <1>a, <2>1, ZenonT(60) DEF Remove, files
    <3> QED BY <3>1, ExitConf
  <2>2. CASE path # None
    <3>1. Step(p, "bind") /\ UNCHANGED config /\ pc[p] = "remove"
          /\ robbed' = robbed \cup {q \in Procs : q = path /\ Serving(q)}
      BY <1>5, <2>2 DEF Remove, files
    <3>2. \A d \in Procs : robbed' = {} => ~(Serving(d) /\ path = d)
      BY <3>1
    <3> QED BY <1>1, <3>1, <3>2 DEF Step, Goto, node
  <2> QED BY <2>1, <2>2, ZenonT(60)
<1>6. CASE Bind(p)
  <2>1. CASE path # None
    BY <1>6, <2>1, ExitConf, ZenonT(60) DEF Bind, files
  <2>2. CASE path = None
    <3>1. /\ path' = p /\ pc[p] = "bind" /\ pc' = [pc EXCEPT ![p] = "load"]
          /\ UNCHANGED <<config, cfg, conn, listens, linklocal, wanted, robbed>>
      BY <1>6, <2>2, ZenonT(60) DEF Bind, Step, Goto, files, node
    <3>2. ASSUME NEW d \in Procs, d # p PROVE Leaves(d)
      BY <1>a, <2>2, <3>1, <3>2, ZenonT(60) DEF Leaves
    <3>3. Conf(p) => Conf(p)'
      BY <3>1 DEF Conf, Serving, InitPlaces
    <3>4. ConfTypes'
      BY <3>1, ZenonT(60)
    <3> QED BY <3>1, <3>2, <3>3, <3>4, LeftAsItWas
  <2> QED BY <2>1, <2>2, ZenonT(60)
<1> QED BY <1>2, <1>3, <1>4, <1>5, <1>6

LEMMA LoadConf == ASSUME ProcInv, ConfInv, NEW p \in Procs, LoadConfig(p) PROVE ConfInv'
<1> USE DEF ProcInv, ConfInv, ConfTypes
<1> DEFINE loaded == IF cmd[p] = "file" THEN config ELSE DefaultConfig
<1>0. UNCHANGED <<config, path, robbed>> /\ pc[p] = "load"
  BY ZenonT(60) DEF LoadConfig, files
<1>1. CASE Exit(p)
  BY <1>0, <1>1, ExitConf
<1>2. CASE Step(p, "nodestart")
  <2>1. pc' = [pc EXCEPT ![p] = "nodestart"] /\ UNCHANGED <<cfg, conn, listens, linklocal, wanted>>
    BY <1>2 DEF Step, Goto, node
  <2>2. ConfTypes'
    BY <1>0, <2>1
  <2>3. ASSUME NEW d \in Procs, d # p PROVE Leaves(d)
    BY <1>0, <2>1, <2>3, ZenonT(60) DEF Leaves
  <2>4. Conf(p) => Conf(p)'
    <3>1. DOMAIN NoConfig.listen = {} /\ ~NoConfig.linklocal
      BY TheConfigs
    <3> QED BY <1>0, <2>1, <3>1 DEF Conf, Serving, InitPlaces
  <2> QED BY <1>0, <2>2, <2>3, <2>4, LeftAsItWas
<1>3. CASE /\ loaded # None
           /\ cfg' = [cfg EXCEPT ![p] = loaded]
           /\ wanted' = [wanted EXCEPT ![p] = loaded]
           /\ pc' = [pc EXCEPT ![p] = "listen"]
           /\ UNCHANGED <<conn, listens, linklocal>>
  <2>1. IsConfig(loaded)
    BY <1>3, TheConfigs
  <2> HIDE DEF loaded
  <2>2. ConfTypes'
    BY <1>0, <1>3, <2>1, ZenonT(60)
  <2>3. ASSUME NEW d \in Procs, d # p PROVE Leaves(d)
    BY <1>0, <1>3, <2>3, ZenonT(60) DEF Leaves
  <2>4. Conf(p) => Conf(p)'
    BY <1>0, <1>3 DEF Conf, Serving, InitPlaces, Listed
  <2> QED BY <1>0, <2>2, <2>3, <2>4, LeftAsItWas
<1> QED BY <1>1, <1>2, <1>3 DEF LoadConfig, Goto, node

LEMMA ListenConf == ASSUME ProcInv, ConfInv, NEW p \in Procs, ConfigurePeering(p) PROVE ConfInv'
<1> USE DEF ProcInv, ConfInv, ConfTypes
<1>0. UNCHANGED <<config, path, robbed>> /\ pc[p] = "listen"
  BY DEF ConfigurePeering, files
<1>1. CASE Exit(p)
  BY <1>0, <1>1, ExitConf, ZenonT(60)
<1>2. CASE cfg[p].listen = <<>> /\ Step(p, "fcnet")
  <2>1. pc' = [pc EXCEPT ![p] = "fcnet"] /\ UNCHANGED <<cfg, conn, listens, linklocal, wanted>>
    BY <1>2 DEF Step, Goto, node
  <2>2. ConfTypes'
    BY <1>0, <2>1
  <2>3. ASSUME NEW d \in Procs, d # p PROVE Leaves(d)
    BY <1>0, <2>1, <2>3, ZenonT(60) DEF Leaves
  <2>4. Conf(p) => Conf(p)'
    <3>1. \A t : Heard(p, t)' <=> Heard(p, t)
      BY <2>1 DEF Heard
    <3>2. \A t : ~Listed(t, cfg[p].listen)
      BY <1>2 DEF Listed
    <3> QED BY <1>0, <2>1, <3>1, <3>2 DEF Conf, Serving, InitPlaces
  <2> QED BY <1>0, <2>2, <2>3, <2>4, LeftAsItWas
<1>3. ASSUME NEW q \in Procs, q \in Reached(p), cfg[p].listen # <<>>,
             Listens(q, Head(cfg[p].listen)), cfg' = [cfg EXCEPT ![p].listen = Tail(@)],
             conn' = [conn EXCEPT ![p] = q], UNCHANGED <<pc, linklocal, wanted>>
      PROVE  ConfInv'
  <2> DEFINE t == Head(cfg[p].listen)
             new == [addr |-> AddrPort(Received(t)), text |-> t]
  <2>1. listens' = [listens EXCEPT ![q] = @ \cup {new}]
    BY <1>3 DEF Listens
  <2>2. /\ cfg'[p].listen = Tail(cfg[p].listen) /\ cfg'[p].linklocal = cfg[p].linklocal
        /\ IsConfig(cfg'[p]) /\ \A d \in Procs \ {p} : cfg'[d] = cfg[d]
    <3>1. IsConfig(cfg[p]) /\ IsSeq(cfg[p].listen)
      BY DEF IsConfig
    <3>2. IsSeq(Tail(cfg[p].listen))
      BY <1>3, <3>1, TailOfTexts
    <3>3. cfg[p] = [listen |-> cfg[p].listen, fcnet |-> cfg[p].fcnet, linklocal |-> cfg[p].linklocal]
      BY <3>1 DEF IsConfig
    <3>4. cfg'[p] = [listen |-> Tail(cfg[p].listen), fcnet |-> cfg[p].fcnet,
                     linklocal |-> cfg[p].linklocal]
      <4>1. cfg'[p] = [cfg[p] EXCEPT !.listen = Tail(@)]
        BY <1>3
      <4> QED BY <3>3, <4>1, ZenonT(60)
    <3>5. IsConfig(cfg'[p])
      BY <3>2, <3>4 DEF IsConfig
    <3> QED BY <1>3, <3>4, <3>5, ZenonT(60)
  <2>3. ConfTypes'
    <3>1. cfg' = [d \in Procs |-> cfg'[d]] /\ DOMAIN cfg' = Procs
      BY <1>3, ZenonT(60)
    <3> QED BY <1>0, <1>3, <2>1, <2>2, <3>1, ZenonT(60)
  <2>4. new.text = t
    OBVIOUS
  <2> HIDE DEF new, t
  <2>5. ASSUME NEW d \in Procs PROVE listens[d] \subseteq listens'[d]
    BY <2>1
  <2>6. ASSUME NEW d \in Procs, d # p PROVE Leaves(d)
    BY <1>0, <1>3, <2>2, <2>5, <2>6 DEF Leaves
  <2>7. ASSUME robbed = {} PROVE Conf(p)'
    <3>1. q = p /\ Conf(p)
      BY <1>0, <1>3, <2>7, ReachesItself DEF Serving
    <3>2. ASSUME NEW u, Heard(p, u) \/ Listed(u, cfg[p].listen)
          PROVE  Heard(p, u)' \/ Listed(u, Tail(cfg[p].listen))
      <4>1. CASE Heard(p, u)
        BY <2>5, <4>1 DEF Heard
      <4>2. CASE u = t
        BY <2>1, <2>4, <3>1, <4>2 DEF Heard
      <4>3. CASE Listed(u, cfg[p].listen) /\ u # t
        <5>1. IsSeq(cfg[p].listen)
          BY DEF IsConfig
        <5>2. PICK i \in DOMAIN cfg[p].listen : cfg[p].listen[i] = u
          BY <4>3 DEF Listed
        <5>3. cfg[p].listen[i] # Head(cfg[p].listen)
          BY <4>3, <5>2, ZenonT(60) DEF t
        <5> QED BY <1>3, <5>1, <5>2, <5>3, TailOfTexts, ZenonT(60)
      <4> QED BY <3>2, <4>1, <4>2, <4>3
    <3> QED BY <1>0, <1>3, <2>2, <3>1, <3>2 DEF Conf, Serving, InitPlaces
  <2> QED BY <1>0, <2>3, <2>6, <2>7, LeftAsItWas
<1> QED BY <1>1, <1>2, <1>3 DEF ConfigurePeering, Reached

LEMMA FcnetConf == ASSUME ProcInv, ConfInv, NEW p \in Procs, ConfigureFcnet(p) PROVE ConfInv'
<1> USE DEF ProcInv, ConfInv, ConfTypes
<1>0. UNCHANGED <<config, path, robbed>> /\ pc[p] = "fcnet"
  BY DEF ConfigureFcnet, files
<1>1. CASE Exit(p)
  BY <1>0, <1>1, ExitConf
<1>2. CASE /\ pc' = [pc EXCEPT ![p] = "linklocal"]
           /\ UNCHANGED <<cfg, listens, linklocal, wanted>>
           /\ UNCHANGED conn \/ \E q \in Reached(p) : conn' = [conn EXCEPT ![p] = q]
  <2>1. ConfTypes'
    BY <1>0, <1>2 DEF Reached
  <2>2. ASSUME NEW d \in Procs, d # p PROVE Leaves(d)
    BY <1>0, <1>2, <2>2, ZenonT(60) DEF Leaves
  <2>3. ASSUME robbed = {} PROVE Conf(p)'
    <3>1. Reached(p) = {p} /\ Conf(p)
      BY <1>0, <2>3, ReachesItself, ZenonT(60) DEF Serving
    <3>2. conn'[p] \in {None, p}
      BY <1>0, <1>2, <3>1 DEF Conf, Serving
    <3>3. \A t : Heard(p, t)' <=> Heard(p, t)
      BY <1>2 DEF Heard
    <3> QED BY <1>0, <1>2, <3>1, <3>2, <3>3, ZenonT(60) DEF Conf, Serving, InitPlaces
  <2> QED BY <1>0, <2>1, <2>2, <2>3, LeftAsItWas
<1> QED BY <1>1, <1>2 DEF ConfigureFcnet, Step, Goto, node

LEMMA LinkLocalConf == ASSUME ProcInv, ConfInv, NEW p \in Procs, ConfigureLinkLocal(p) PROVE ConfInv'
<1> USE DEF ProcInv, ConfInv, ConfTypes
<1>0. UNCHANGED <<config, path, robbed>> /\ pc[p] = "linklocal"
  BY ZenonT(60) DEF ConfigureLinkLocal, files
<1>1. CASE Exit(p)
  BY <1>0, <1>1, ExitConf, ZenonT(60)
<1>2. ASSUME NEW q \in Reached(p), Leave(p, [linklocal EXCEPT ![q] = FALSE]) PROVE ConfInv'
  <2>1. CASE q = p
    <3>1. [[linklocal EXCEPT ![p] = FALSE] EXCEPT ![p] = FALSE] = [linklocal EXCEPT ![p] = FALSE]
      BY ZenonT(60)
    <3> QED BY <1>0, <1>2, <2>1, <3>1, ExitConf, ZenonT(60) DEF Leave, Exit
  <2>2. CASE robbed # {}
    <3>1. ConfTypes'
      BY <1>0, <1>2, TheConfigs, ZenonT(60) DEF Leave
    <3> QED BY <1>0, <2>2, <3>1
  <2>3. Serving(p)
    BY <1>0 DEF Serving
  <2> QED BY <2>1, <2>2, <2>3, ReachesItself
<1>3. CASE /\ pc' = [pc EXCEPT ![p] = "nodestart"]
           /\ UNCHANGED <<cfg, conn, listens, wanted>>
           /\ \/ ~cfg[p].linklocal /\ UNCHANGED linklocal
              \/ \E q \in Reached(p) : linklocal' = [linklocal EXCEPT ![q] = TRUE]
  <2>1. ConfTypes'
    BY <1>0, <1>3
  <2>2. ASSUME NEW d \in Procs, d # p PROVE Leaves(d)
    BY <1>0, <1>3, <2>2, ZenonT(60) DEF Leaves
  <2>3. ASSUME robbed = {} PROVE Conf(p)'
    <3>1. Reached(p) = {p} /\ Conf(p)
      BY <1>0, <2>3, ReachesItself DEF Serving
    <3>2. cfg[p].linklocal => linklocal'[p]
      BY <1>3, <3>1
    <3>3. \A t : Heard(p, t)' <=> Heard(p, t)
      BY <1>3 DEF Heard
    <3> QED BY <1>0, <1>3, <3>1, <3>2, <3>3 DEF Conf, Serving, InitPlaces
  <2> QED BY <1>0, <2>1, <2>2, <2>3, LeftAsItWas
<1> QED BY <1>1, <1>2, <1>3, ZenonT(60) DEF ConfigureLinkLocal, Step, Goto, node

LEMMA UpConf == ASSUME ProcInv, ConfInv, NEW p \in Procs, NodeStart(p) PROVE ConfInv'
<1> USE DEF ProcInv, ConfInv, ConfTypes
<1>1. /\ pc[p] = "nodestart" /\ pc' = [pc EXCEPT ![p] = "up"]
      /\ UNCHANGED <<config, path, robbed, cfg, conn, listens, linklocal, wanted>>
  BY DEF NodeStart, Goto, files
<1>2. ASSUME NEW d \in Procs, d # p PROVE Leaves(d)
  BY <1>1, <1>2, ZenonT(60) DEF Leaves
<1>3. Conf(p) => Conf(p)'
  BY <1>1 DEF Conf, Serving, InitPlaces, Heard
<1>4. ConfTypes'
  BY <1>1
<1> QED BY <1>1, <1>2, <1>3, <1>4, LeftAsItWas

LEMMA UserConf ==
    ASSUME ProcInv, ConfInv, UserStep \/ (\E c \in Configs : EditConfig(c)) \/ UNCHANGED vars
    PROVE  ConfInv'
<1> USE DEF ConfInv, ConfTypes
<1>1. ASSUME UNCHANGED <<pc, path, robbed, cfg, conn, linklocal, wanted>>,
             \A d \in Procs : listens[d] \subseteq listens'[d], ConfTypes'
      PROVE  ConfInv'
  <2>1. \A d \in Procs : Leaves(d)
    BY <1>1, ZenonT(60) DEF Leaves
  <2> QED BY <1>1, <2>1, LeftAsItWas
<1>2. ASSUME NEW t \in Args, PeerListen(t) PROVE ConfInv'
  <2>1. PICK q \in Procs : Listens(q, t)
    BY <1>2 DEF PeerListen
  <2>2. PICK new : listens' = [listens EXCEPT ![q] = @ \cup {new}]
    BY <2>1, ZenonT(60) DEF Listens
  <2>3. (\A d \in Procs : listens[d] \subseteq listens'[d]) /\ listens' = [d \in Procs |-> listens'[d]]
    BY <2>2
  <2>4. UNCHANGED <<config, pc, path, robbed, cfg, conn, linklocal, wanted>>
    BY <1>2 DEF PeerListen, files
  <2>5. ConfTypes'
    BY <2>3, <2>4, ZenonT(60)
  <2> QED BY <1>1, <2>3, <2>4, <2>5
<1>3. CASE StopCmd \/ UNCHANGED vars
  BY <1>1, <1>3, ZenonT(60) DEF StopCmd, vars, files, node
<1>4. ASSUME NEW c \in Configs, EditConfig(c) PROVE ConfInv'
  BY <1>1, <1>4, TheConfigs DEF EditConfig, node
<1> QED BY <1>2, <1>3, <1>4, ZenonT(60) DEF UserStep

LEMMA StepKeepsConf == ProcInv /\ SocketInv /\ ConfInv /\ [Next]_vars => ConfInv'
<1> SUFFICES ASSUME ProcInv, SocketInv, ConfInv, [Next]_vars PROVE ConfInv'
  OBVIOUS
<1>1. ASSUME NEW p \in Procs, Crash(p) PROVE ConfInv'
  BY <1>1, ExitConf DEF Crash, files
<1>2. ASSUME NEW p \in Procs, StartStep(p) PROVE ConfInv'
  BY <1>2, TakeSocketConf, LoadConf, ListenConf, FcnetConf, LinkLocalConf, UpConf DEF StartStep, Keys
<1> QED BY <1>1, <1>2, InitStepConf, UserConf DEF Next

\* A daemon configures itself as a client of its own socket (start.go,
\* nodecfg.go): for any configs and any number of commands, one that is up has
\* every listener and the discovery that its config names, unless some daemon
\* was robbed of its socket.
THEOREM UpAsConfigured == Spec => []RunsAsConfigured
<1>1. Init => ConfInv
  BY TheConfigs DEF Init, ConfInv, ConfTypes, Conf, Serving
<1>2. ConfInv => RunsAsConfigured
  BY DEF ConfInv, Conf, Heard, RunsAsConfigured
<1> QED BY <1>1, <1>2, InitFiles, InitSocket, NextIsProcStep, ProcStepKeeps, StepKeepsSocket,
           StepKeepsConf, PTL DEF Spec
=============================================================================
