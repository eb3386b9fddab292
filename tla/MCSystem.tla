------------------------------ MODULE MCSystem ------------------------------
(***************************************************************************)
(* Small instances of System: a peer p that another dialer has heard of    *)
(* from w.                                                                 *)
(***************************************************************************)
EXTENDS System

CONSTANTS p, w, v, ip, port

PublicEnd == [address |-> ip, port |-> port]
Meta(id, n) == [peer |-> id, addrs |-> {PublicEnd}, network |-> n]
Named(n) == {[topic |-> "peer/reachable", node |-> Meta(p, n), from |-> Meta(w, n)]}
NamedOnMirana == Named("Mirana")
NamedOnPudge == Named("Pudge")

NoBootnodes == [n \in {"Mirana", "Pudge"} |-> {}]
NoReports == {}

FullPeer == {[version |-> v, flag |-> 31]}
NamesNobody == {}
NamesNothing == {<<>>}
==============================================================================
