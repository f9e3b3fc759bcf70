------------------------------ MODULE MCDaemon ------------------------------
(***************************************************************************)
(* Daemon with texts that a user may mean as addresses: complete ones, one *)
(* with a peer, without a port, with port 0, and with two ports.           *)
(***************************************************************************)
EXTENDS Daemon, TLC

ip6 == Comp("ip6", "::")
ip4 == Comp("ip4", "0.0.0.0")
udp(port) == Comp("udp", port)
rovy == Comp("rovy", "peer")

MCArgs ==
    { <<ip6, udp(1312)>>, <<ip6, udp(0)>>, <<ip6>>, <<ip6, udp(7), rovy>>,
      <<rovy, ip6, udp(7)>>, <<ip6, udp(0), udp(7)>>, <<ip6, udp(7), ip4, udp(8)>>,
      <<ip6, udp(0), udp(0)>> }

MCConfigs == { [listen |-> <<t>>, fcnet |-> FALSE, linklocal |-> ll] :
                  t \in {<<ip4, udp(7)>>, <<ip6, udp(0)>>}, ll \in {TRUE} }

Symmetry == Permutations(Procs)
=============================================================================
