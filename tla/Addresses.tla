------------------------------ MODULE Addresses ------------------------------
(***************************************************************************)
(* src/network.rs: from the multiaddresses of the peer-to-peer network to  *)
(* the nodes and endpoints of the reports, and back.  A multiaddress is a  *)
(* sequence of protocols.  IPv4 and IPv6 are handled alike, so there is    *)
(* one kind of IP address; every protocol that the code skips (DNS names,  *)
(* websockets, onion addresses) is the protocol "other".  The lists of     *)
(* endpoints of a node are taken as sets.                                  *)
(***************************************************************************)
EXTENDS Naturals, Sequences, NodeTypes

CONSTANTS
    PeerId,     \* base58 peer ids
    NoId,       \* the empty string, where a peer id is missing
    Ip,         \* IP addresses
    Loopback,   \* those for which is_loopback holds
    Localhost,  \* 127.0.0.1
    Port,
    NoPort      \* port 0

ASSUME AddressAssumption ==
    /\ NoId \notin PeerId
    /\ Loopback \subseteq Ip /\ Localhost \in Loopback
    /\ NoPort \in Port

Protocol == [is : {"ip"}, v : Ip] \cup [is : {"tcp"}, v : Port]
            \cup [is : {"p2p"}, v : PeerId] \cup [is : {"other"}, v : {NoId}]
Multiaddr == Seq(Protocol)

EndpointInfo == [address : Ip, port : Port]
NodeMetaInfo == [peer : PeerId \cup {NoId}, addrs : SUBSET EndpointInfo,
                 network : Networks]

\* The loops over the protocols of an address: the last one of a kind counts.
Found(addr, kind, default) ==
    LET at == {i \in DOMAIN addr : addr[i].is = kind}
    IN  IF at = {} THEN default
        ELSE addr[CHOOSE i \in at : \A j \in at : j <= i].v

addr_to_endpoint(addr) == [address |-> Found(addr, "ip", Localhost),
                           port |-> Found(addr, "tcp", NoPort)]

addr_to_node_meta(addr, n) == [peer |-> Found(addr, "p2p", NoId),
                               addrs |-> {addr_to_endpoint(addr)},
                               network |-> n]

IsLoopback(e) == e.address \in Loopback

\* The address as the code formats it.
Format(e, id) == <<[is |-> "ip", v |-> e.address], [is |-> "tcp", v |-> e.port],
                   [is |-> "p2p", v |-> id]>>

\* Mutant: loopback addresses are dialed.
meta_info_to_addr_any(meta) ==
    IF meta.peer = NoId THEN {} ELSE {Format(e, meta.peer) : e \in meta.addrs}

\* The addresses of a node that can be dialed.  Without a peer id the text
\* does not parse, and the caller drops what does not parse.
meta_info_to_addr(meta) ==
    IF meta.peer = NoId THEN {}
    ELSE {Format(e, meta.peer) : e \in {x \in meta.addrs : ~IsLoopback(x)}}
==============================================================================
