----------------------------- MODULE Multiaddr -----------------------------
(***************************************************************************)
(* Addresses and their text (multiaddr.go).  A text is a sequence of       *)
(* components, a protocol with its value, where the code splits at the     *)
(* slashes.  Texts whose values do not parse are left out.                 *)
(***************************************************************************)
EXTENDS Naturals, Sequences

NoIP == "no IP"
NoPeer == "no peer"

Comp(proto, value) == [proto |-> proto, value |-> value]

\* type Multiaddr: family is "ip6" or "ip4" if there is an IP.
Empty == [family |-> NoIP, ip |-> NoIP, port |-> 0, peer |-> NoPeer, more |-> <<>>]

\* The text begins with components of these protocols.
BeginsWith(t, protos) ==
    Len(t) >= Len(protos) /\ \A i \in DOMAIN protos : t[i].proto = protos[i]

\* One of the first two IFs of ParseMultiaddr: m.more is what is left of the text.
TakeUDP(m, family) ==
    IF ~BeginsWith(m.more, <<family, "udp">>) THEN m
    ELSE [m EXCEPT !.family = family, !.ip = m.more[1].value, !.port = m.more[2].value,
                   !.more = SubSeq(m.more, 3, Len(m.more))]

TakePeer(m) ==
    IF ~BeginsWith(m.more, <<"rovy">>) THEN m
    ELSE [m EXCEPT !.peer = m.more[1].value, !.more = Tail(m.more)]

ParseMultiaddr(t) == TakePeer(TakeUDP(TakeUDP([Empty EXCEPT !.more = t], "ip6"), "ip4"))

\* String: an IP without its port if that is 0, and the peer last.
String(m) ==
    (IF m.family = NoIP THEN <<>> ELSE <<Comp(m.family, m.ip)>>)
      \o (IF m.family = NoIP \/ m.port = 0 THEN <<>> ELSE <<Comp("udp", m.port)>>)
      \o m.more
      \o (IF m.peer = NoPeer THEN <<>> ELSE <<Comp("rovy", m.peer)>>)

Protocols(m) ==
    (IF m.family = NoIP THEN <<>> ELSE <<m.family, "udp">>)
      \o [i \in DOMAIN m.more |-> m.more[i].proto]
      \o (IF m.peer = NoPeer THEN <<>> ELSE <<"rovy">>)

\* MarshalJSON at the one end of a connection and UnmarshalJSON at the other.
OverTheWire(m) == ParseMultiaddr(String(m))
=============================================================================
