------------------------------- MODULE PeerMap -------------------------------
(***************************************************************************)
(* What the control centre promises to those who read the map of peers: a  *)
(* peer is on the map while it has one of three marks; a mark disappears   *)
(* when it is due and was not renewed, or because `unknown' is replaced by *)
(* a mark of being online, which is there first; the index of the networks *)
(* only grows.  Marci implements this specification, and the query service *)
(* is modelled against it.                                                 *)
(***************************************************************************)
EXTENDS NodeTypes

CONSTANT Peer

VARIABLES
    map,      \* the marks of each peer
    due,      \* the marks whose time is up
    index,    \* the networks under which each peer is listed
    updated,  \* the service has been updated once
    cut       \* the peers whose marks a failure may have left out of step

Marks == {"online", "online2", "unknown"}
OnlineMarks == {"online", "online2"}

vars == <<map, due, index, updated, cut>>

Init ==
    /\ map = [p \in Peer |-> {}]
    /\ due = {}
    /\ index = [p \in Peer |-> {}]
    /\ updated = FALSE
    /\ cut = {}

\* A peer answered a dialer.
ShowOnline(p, mark) ==
    /\ map' = [map EXCEPT ![p] = @ \cup {mark}]
    /\ due' = due \ {<<mark, p>>}
    /\ UNCHANGED <<index, updated, cut>>

\* A report of any kind about a peer that is online.
Renew(p) ==
    /\ "online" \in map[p]
    /\ due' = due \ {<<"online", p>>}
    /\ UNCHANGED <<map, index, updated, cut>>

\* A peer could not be dialed, but enough other peers know it.
ShowUnknown(p) ==
    /\ "online" \notin map[p] \/ p \in cut
    /\ map' = [map EXCEPT ![p] = @ \cup {"unknown"}]
    /\ due' = due \ {<<"unknown", p>>}
    /\ UNCHANGED <<index, updated, cut>>

\* The mark unknown goes once an online mark is there.
ReplaceUnknown(p) ==
    /\ \/ map[p] \cap OnlineMarks # {}
       \/ "unknown" \notin map[p]
       \/ p \in cut
    /\ map' = [map EXCEPT ![p] = @ \ {"unknown"}]
    /\ due' = due \ {<<"unknown", p>>}
    /\ cut' = cut \ {p}
    /\ UNCHANGED <<index, updated>>

Expire(p, mark) ==
    /\ <<mark, p>> \in due
    /\ map' = [map EXCEPT ![p] = @ \ {mark}]
    /\ due' = due \ {<<mark, p>>}
    /\ UNCHANGED <<index, updated, cut>>

Interrupt(p) == cut' = cut \cup {p} /\ UNCHANGED <<map, due, index, updated>>

\* A peer was named by another peer, on network n.
List(p, n) ==
    /\ index' = [index EXCEPT ![p] = @ \cup {n}]
    /\ UNCHANGED <<map, due, updated, cut>>

Update == updated' = TRUE /\ UNCHANGED <<map, due, index, cut>>

\* Time passes: marks that were not renewed become due.
Age ==
    /\ due' \in SUBSET {k \in Marks \X Peer : k[1] \in map[k[2]]}
    /\ due \subseteq due'
    /\ UNCHANGED <<map, index, updated, cut>>

PeerStep(p) ==
    \/ \E mark \in OnlineMarks : ShowOnline(p, mark)
    \/ ShowUnknown(p)
    \/ ReplaceUnknown(p)
    \/ Renew(p)
    \/ \E mark \in Marks : Expire(p, mark)
    \/ Interrupt(p)
    \/ \E n \in NetworkStrings : List(p, n)

Next == Age \/ Update \/ \E p \in Peer : PeerStep(p)

Spec == Init /\ [][Next]_vars
==============================================================================
