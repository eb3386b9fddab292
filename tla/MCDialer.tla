------------------------------ MODULE MCDialer ------------------------------
(***************************************************************************)
(* Small instances of Dialer: a bootnode b, and a peer p that b names and  *)
(* that is requested, with a public address and localhost.                 *)
(***************************************************************************)
EXTENDS Dialer

CONSTANTS b, p, ip, port, v

PublicAddr(id) == Format([address |-> ip, port |-> port], id)
LocalAddr(id) == Format([address |-> Localhost, port |-> port], id)
DnsAddr(id) == <<[is |-> "other", v |-> NoId], [is |-> "p2p", v |-> id]>>

MiranaBootnode == [n \in Service |-> IF n = "Mirana" THEN {PublicAddr(b)} ELSE {}]

Asking(n) == [peer |-> p, network |-> n,
              addrs |-> {[address |-> ip, port |-> port],
                         [address |-> Localhost, port |-> port]}]
AskForPeer == {Asking("Mirana")}
AskForBoot == {[Asking(n) EXCEPT !.peer = b] : n \in {"Mirana", "Dev"}}

Flags(s) == {[version |-> v, flag |-> f] : f \in s}
FullPeer == Flags({31})
\* A node that does not offer discovery, or no message.
OtherPeer == Flags({4}) \cup {Malformed}

\* A node by name and by addresses; no node, and nodes without an address or
\* with a malformed one.
NamesPeer == {<<<<DnsAddr(p), PublicAddr(b), LocalAddr(p)>>>>}
NamesBoot == {<<>>, <<<<>>, <<PublicAddr(b)>>, <<Malformed>>>>}
==============================================================================
