------------------------------- MODULE Daemon -------------------------------
(***************************************************************************)
(* The command line (cmd/rovy) around one directory: `rovy init` writes    *)
(* the key and the config, `rovy start` takes the API socket, configures   *)
(* the node through it as any client would (api/config/nodecfg,            *)
(* api/client), and starts it.  Each command is a process that may be      *)
(* killed at any step.  None removes its socket when it ends.              *)
(*                                                                         *)
(* A file is written in two steps, as os.WriteFile does.  What an API      *)
(* handler does is one step here; how handlers of one node interleave is   *)
(* in Control.                                                             *)
(***************************************************************************)
EXTENDS Multiaddr, FiniteSets

CONSTANTS
    Procs,      \* processes: bounds how many commands are run
    Configs,    \* configs a user may write
    Args,       \* arguments of `rovy peer listen`
    None

\* A config names a sequence of texts, and the names of processes are their own.
ASSUME DaemonAssumption ==
    /\ \A c \in Configs :
          /\ c = [listen |-> c.listen, fcnet |-> c.fcnet, linklocal |-> c.linklocal]
          /\ c.listen \in Seq({c.listen[i] : i \in DOMAIN c.listen})
    /\ None \notin Procs \cup Configs /\ "empty" \notin Procs

VARIABLES
    keyfile,    \* None, "empty", or the process whose key it holds
    config,     \* the config file: None or a config
    path,       \* the API socket: None or the process that bound it last
    cmd,        \* cmd[p]: the command p runs
    pc,         \* pc[p]: where it is
    cfg,        \* cfg[p]: the config p has loaded, as far as it is not done
    conn,       \* conn[p]: whose API p is connected to
    listens,    \* listens[p]: the transports of p's node, with their texts
    linklocal,  \* linklocal[p]: p's node has the link-local socket
    running,    \* running[p]: p's node runs
    met,        \* history: met[p] are the processes that were there beside p
    robbed,     \* history: processes whose socket another one has removed
    wanted      \* history: wanted[p] is the config p has loaded

files == <<keyfile, config>>
node == <<listens, linklocal, running>>
vars == <<files, path, cmd, pc, cfg, conn, node, met, robbed, wanted>>

NoConfig == [listen |-> <<>>, fcnet |-> FALSE, linklocal |-> FALSE]

\* api/config: what `rovy init` writes and `rovy start -K @` uses.
DefaultConfig ==
    [listen |-> << <<Comp("ip6", "::"), Comp("udp", 1312)>>,
                   <<Comp("ip4", "0.0.0.0"), Comp("udp", 1312)>> >>,
     fcnet |-> TRUE, linklocal |-> TRUE]

Init ==
    /\ keyfile = None /\ config = None /\ path = None
    /\ cmd = [p \in Procs |-> "none"]
    /\ pc = [p \in Procs |-> "idle"]
    /\ cfg = [p \in Procs |-> NoConfig]
    /\ conn = [p \in Procs |-> None]
    /\ listens = [p \in Procs |-> {}]
    /\ linklocal = [p \in Procs |-> FALSE]
    /\ running = [p \in Procs |-> FALSE]
    /\ met = [p \in Procs |-> {}]
    /\ robbed = {}
    /\ wanted = [p \in Procs |-> NoConfig]

Alive == {p \in Procs : pc[p] \notin {"idle", "gone"}}

\* The API of p answers: its listener is there from Bind on.
Serving(p) == pc[p] \in {"load", "listen", "fcnet", "linklocal", "nodestart", "up"}

Goto(p, at) == pc' = [pc EXCEPT ![p] = at]

\* The process is gone, and with it all that the kernel held for it; ll is who
\* has the link-local socket from then on.
Leave(p, ll) ==
    /\ Goto(p, "gone")
    /\ listens' = [listens EXCEPT ![p] = {}]
    /\ linklocal' = [ll EXCEPT ![p] = FALSE]
    /\ running' = [running EXCEPT ![p] = FALSE]
    /\ conn' = [conn EXCEPT ![p] = None]
    /\ cfg' = [cfg EXCEPT ![p] = NoConfig]
    /\ UNCHANGED <<cmd, met, wanted>>

\* A step of a command that leads on to `at`, or out.
Step(p, at) == Goto(p, at) /\ UNCHANGED <<cmd, cfg, conn, node, met, wanted>>
Exit(p) == Leave(p, linklocal)

Crash(p) ==
    /\ p \in Alive
    /\ Exit(p)
    /\ UNCHANGED <<files, path, robbed>>

\* A command is run; its first step leads to `at`.
Begin(p, c, at) ==
    /\ pc[p] = "idle"
    /\ cmd' = [cmd EXCEPT ![p] = c]
    /\ Goto(p, at)
    /\ met' = [q \in Procs |-> IF q = p THEN Alive
                               ELSE IF q \in Alive THEN met[q] \cup {p} ELSE met[q]]
    /\ UNCHANGED <<files, path, cfg, conn, node, robbed, wanted>>

----------------------------------------------------------------------------
\* An init that does not look for a keyfile.
InitCmdUnasked(p) == Begin(p, "init", "statconfig")

\* initCmdFunc: neither file may exist.
InitCmd(p) ==
    /\ keyfile = None
    /\ Begin(p, "init", "statconfig")

InitStatConfig(p) ==
    /\ pc[p] = "statconfig"
    /\ IF config = None THEN Step(p, "openkey") ELSE Exit(p)
    /\ UNCHANGED <<files, path, robbed>>

\* SaveKeyfile and SaveConfig
OpenKey(p) ==
    /\ pc[p] = "openkey"
    /\ keyfile' = "empty"
    /\ Step(p, "writekey")
    /\ UNCHANGED <<config, path, robbed>>

\* An init that goes on when the write has failed.
WriteKeyOrNot(p) ==
    /\ pc[p] = "writekey"
    /\ keyfile' \in {keyfile, p}
    /\ Step(p, "openconfig")
    /\ UNCHANGED <<config, path, robbed>>

WriteKey(p) ==
    /\ pc[p] = "writekey"
    /\ keyfile' = p
    /\ Step(p, "openconfig")
    /\ UNCHANGED <<config, path, robbed>>

OpenConfig(p) ==
    /\ pc[p] = "openconfig"
    /\ config' = NoConfig
    /\ Step(p, "writeconfig")
    /\ UNCHANGED <<keyfile, path, robbed>>

WriteConfig(p) ==
    /\ pc[p] = "writeconfig"
    /\ config' = DefaultConfig
    /\ Exit(p)
    /\ UNCHANGED <<keyfile, path, robbed>>

----------------------------------------------------------------------------
\* An empty keyfile is no key.
LoadKeyfile == keyfile \in Procs

\* startCmdFunc, readPrivateKey: the key comes from the keyfile, is made up (@)
\* or is read from stdin (-).
StartCmd(p, key) ==
    /\ key = "file" => LoadKeyfile
    /\ Begin(p, key, "stat")

\* checkSocket: is there a socket, and does somebody answer?
Stat(p) ==
    /\ pc[p] = "stat"
    /\ Step(p, IF path = None THEN "bind" ELSE "dial")
    /\ UNCHANGED <<files, path, robbed>>

\* A check that takes every socket for an old one.
DialNobody(p) ==
    /\ pc[p] = "dial"
    /\ Step(p, "remove")
    /\ UNCHANGED <<files, path, robbed>>

Dial(p) ==
    /\ pc[p] = "dial"
    /\ IF path # None /\ ~Serving(path) THEN Step(p, "remove") ELSE Exit(p)
    /\ UNCHANGED <<files, path, robbed>>

\* os.Remove takes away the socket that is there now.
Remove(p) ==
    /\ pc[p] = "remove"
    /\ path' = None
    /\ robbed' = robbed \cup {q \in Procs : q = path /\ Serving(q)}
    /\ IF path = None THEN Exit(p) ELSE Step(p, "bind")
    /\ UNCHANGED files

\* startAPI: net.Listen fails if there is a socket.
Bind(p) ==
    /\ pc[p] = "bind"
    /\ IF path = None THEN path' = p /\ Step(p, "load") ELSE Exit(p) /\ UNCHANGED path
    /\ UNCHANGED <<files, robbed>>

\* configureNode and configureNodeDefault; a key from stdin comes without.
LoadConfig(p) ==
    LET loaded == IF cmd[p] = "file" THEN config ELSE DefaultConfig
    IN  /\ pc[p] = "load"
        /\ \/ /\ cmd[p] = "-"
              /\ Step(p, "nodestart")
           \/ /\ cmd[p] # "-" /\ loaded = None
              /\ Exit(p)
           \/ /\ cmd[p] # "-" /\ loaded # None
              /\ cfg' = [cfg EXCEPT ![p] = loaded]
              /\ wanted' = [wanted EXCEPT ![p] = loaded]
              /\ Goto(p, "listen")
              /\ UNCHANGED <<cmd, conn, node, met>>
        /\ UNCHANGED <<files, path, robbed>>

----------------------------------------------------------------------------
\* Whom a request of p reaches: the connection is kept, and otherwise the
\* client dials the socket that is there now.
Reached(p) ==
    IF conn[p] # None /\ Serving(conn[p]) THEN {conn[p]}
    ELSE {q \in Procs : path = q /\ Serving(q)}

\* The address of a socket, as a text.
AddrPort(m) == <<Comp(m.family, m.ip), Comp("udp", m.port)>>

\* A port 0 is always free.
Free(m) == m.port # 0 => \A q \in Procs : \A l \in listens[q] : l.addr # AddrPort(m)

\* A check that does not look at the length.
AcceptsMore(m) ==
    /\ Len(Protocols(m)) >= 2
    /\ SubSeq(Protocols(m), 1, 2) \in {<<"ip6", "udp">>, <<"ip4", "udp">>}
    /\ Free(m)

\* NewTransport: the address must be one of UDP and nothing else.
Accepts(m) ==
    /\ Protocols(m) \in {<<"ip6", "udp">>, <<"ip4", "udp">>}
    /\ Free(m)

\* What the server makes of the text t that a client has parsed.
Received(t) == OverTheWire(ParseMultiaddr(t))

\* servePeerListen at q
Listens(q, t) ==
    /\ Accepts(Received(t))
    /\ listens' = [listens EXCEPT ![q] = @ \cup {[addr |-> AddrPort(Received(t)), text |-> t]}]

\* A ConfigurePeering that goes on after an error.
ConfigurePeeringGoesOn(p) ==
    /\ pc[p] = "listen"
    /\ \/ cfg[p].listen = <<>> /\ Step(p, "fcnet")
       \/ /\ cfg[p].listen # <<>>
          /\ \E q \in Reached(p) :
                /\ Listens(q, Head(cfg[p].listen)) \/ UNCHANGED listens
                /\ cfg' = [cfg EXCEPT ![p].listen = Tail(@)]
                /\ conn' = [conn EXCEPT ![p] = q]
          /\ UNCHANGED <<cmd, pc, linklocal, running, met, wanted>>
    /\ UNCHANGED <<files, path, robbed>>

\* ConfigurePeering: an error ends the command.  Connect does nothing.
ConfigurePeering(p) ==
    /\ pc[p] = "listen"
    /\ \/ cfg[p].listen = <<>> /\ Step(p, "fcnet")
       \/ /\ cfg[p].listen # <<>>
          /\ \E q \in Reached(p) :
                /\ Listens(q, Head(cfg[p].listen))
                /\ cfg' = [cfg EXCEPT ![p].listen = Tail(@)]
                /\ conn' = [conn EXCEPT ![p] = q]
          /\ UNCHANGED <<cmd, pc, linklocal, running, met, wanted>>
       \/ /\ cfg[p].listen # <<>>
          /\ \A q \in Reached(p) :
                conn[p] \notin {None, q} \/ ~Accepts(Received(Head(cfg[p].listen)))
          /\ Exit(p)
    /\ UNCHANGED <<files, path, robbed>>

\* ConfigureFcnet: NetworkManager may fail.  Whether the descriptor of the
\* device reaches the node depends on who is first, sendFD or receiveFD; the
\* client does not look at the answer.
ConfigureFcnet(p) ==
    /\ pc[p] = "fcnet"
    /\ \/ ~cfg[p].fcnet /\ Step(p, "linklocal")
       \/ cfg[p].fcnet /\ Exit(p)
       \/ /\ cfg[p].fcnet
          /\ \E q \in Reached(p) : conn' = [conn EXCEPT ![p] = q]
          /\ Goto(p, "linklocal")
          /\ UNCHANGED <<cmd, cfg, node, met, wanted>>
    /\ UNCHANGED <<files, path, robbed>>

\* ConfigureDiscoveryLinkLocal: one socket at a time has the port.  A node that
\* has it already stops its LinkLocal first, and the new one then finds the
\* port taken or just released.
ConfigureLinkLocal(p) ==
    /\ pc[p] = "linklocal"
    /\ \/ ~cfg[p].linklocal /\ Step(p, "nodestart")
       \/ /\ cfg[p].linklocal
          /\ \E q \in Reached(p) :
                /\ \A r \in Procs \ {q} : ~linklocal[r]
                /\ linklocal' = [linklocal EXCEPT ![q] = TRUE]
          /\ Goto(p, "nodestart")
          /\ UNCHANGED <<cmd, cfg, conn, listens, running, met, wanted>>
       \/ /\ cfg[p].linklocal
          /\ \E q \in Reached(p), r \in Procs :
                linklocal[r] /\ Leave(p, [linklocal EXCEPT ![q] = FALSE])
       \/ /\ cfg[p].linklocal
          /\ \A q \in Reached(p) : conn[p] \notin {None, q}
          /\ Exit(p)
    /\ UNCHANGED <<files, path, robbed>>

\* node.Start of the process itself.
NodeStart(p) ==
    /\ pc[p] = "nodestart"
    /\ running' = [running EXCEPT ![p] = TRUE]
    /\ Goto(p, "up")
    /\ UNCHANGED <<files, path, cmd, cfg, conn, listens, linklocal, met, robbed, wanted>>

----------------------------------------------------------------------------
\* `rovy peer listen` and `rovy stop`, and a user who edits the config.
PeerListen(t) ==
    /\ \E q \in Procs : path = q /\ Serving(q) /\ Listens(q, t)
    /\ UNCHANGED <<files, path, cmd, pc, cfg, conn, linklocal, running, met, robbed, wanted>>

StopCmd ==
    /\ \E q \in Procs : path = q /\ Serving(q) /\ running[q]
                        /\ running' = [running EXCEPT ![q] = FALSE]
    /\ UNCHANGED <<files, path, cmd, pc, cfg, conn, listens, linklocal, met, robbed, wanted>>

EditConfig(c) ==
    /\ config # None
    /\ config' = c
    /\ UNCHANGED <<keyfile, path, cmd, pc, cfg, conn, node, met, robbed, wanted>>

\* The steps of a command, and those of a user at a running daemon.
InitStep(p) ==
    \/ InitCmd(p) \/ InitStatConfig(p)
    \/ OpenKey(p) \/ WriteKey(p) \/ OpenConfig(p) \/ WriteConfig(p)

StartStep(p) ==
    \/ \E key \in {"file", "@", "-"} : StartCmd(p, key)
    \/ Stat(p) \/ Dial(p) \/ Remove(p) \/ Bind(p) \/ LoadConfig(p)
    \/ ConfigurePeering(p) \/ ConfigureFcnet(p) \/ ConfigureLinkLocal(p) \/ NodeStart(p)

UserStep == (\E t \in Args : PeerListen(t)) \/ StopCmd

Next ==
    \/ \E p \in Procs : InitStep(p) \/ StartStep(p) \/ Crash(p)
    \/ UserStep
    \/ \E c \in Configs : EditConfig(c)

Spec == Init /\ [][Next]_vars

----------------------------------------------------------------------------
Keys == {"file", "@", "-"}
AllConfigs == Configs \cup {NoConfig, DefaultConfig}

TypeOK ==
    /\ keyfile \in Procs \cup {None, "empty"}
    /\ config \in AllConfigs \cup {None}
    /\ path \in Procs \cup {None}
    /\ cmd \in [Procs -> Keys \cup {"none", "init"}]
    /\ pc \in [Procs -> {"idle", "gone", "statconfig", "openkey", "writekey", "openconfig",
                         "writeconfig", "stat", "dial", "remove", "bind", "load", "listen",
                         "fcnet", "linklocal", "nodestart", "up"}]
    /\ wanted \in [Procs -> AllConfigs]
    /\ conn \in [Procs -> Procs \cup {None}]
    /\ {linklocal, running} \subseteq [Procs -> BOOLEAN]
    /\ met \in [Procs -> SUBSET Procs] /\ robbed \subseteq Procs

\* A daemon that is up has the listeners and the link-local discovery that its
\* config names, at its own node: everything it configured through the API
\* socket has reached itself, and no request was lost to another daemon, unless
\* some daemon was robbed of its socket.
RunsAsConfigured ==
    robbed = {} => \A p \in Procs : pc[p] = "up" =>
        /\ \A i \in DOMAIN wanted[p].listen :
              \E l \in listens[p] : l.text = wanted[p].listen[i]
        /\ wanted[p].linklocal => linklocal[p]

\* checkSocket removes the socket of a living daemon only if that one was
\* started in the same moment, over a socket that a third one had left behind.
SocketKept ==
    \A p \in robbed : \E q \in met[p] :
        cmd[q] \in Keys /\ \E r \in Procs \ {p, q} : cmd[r] \in Keys /\ pc[r] = "gone"

\* Two `rovy init` do not replace each other's key, unless they overlap: the key
\* of an init that came first stays, wherever commands are killed.
KeyKept ==
    [][(keyfile \in Procs /\ keyfile' # keyfile)
         => \E p \in Procs : (cmd[p] = "init" /\ keyfile \in met[p])]_vars

\* The key is complete before there is a config: a crash of `rovy init` can leave
\* a key without a config, but no config without its key, unless two overlap.
KeyBeforeConfig ==
    config # None =>
        \/ keyfile \in Procs
        \/ \E p, q \in Procs : cmd[p] = "init" /\ cmd[q] = "init" /\ q \in met[p]

\* What a text names once it was printed for the API and parsed again: a node
\* listens on an address only if the text is that address, nothing less and
\* nothing more, unless the text has more than one UDP port.
ListensAsNamed ==
    \A p \in Procs : \A l \in listens[p] :
        Len(SelectSeq(l.text, LAMBDA c : c.proto = "udp")) = 1
          => l.text = l.addr
=============================================================================
