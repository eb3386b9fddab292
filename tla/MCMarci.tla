------------------------------- MODULE MCMarci -------------------------------
(***************************************************************************)
(* Small instances of Marci: one peer p that is reported on, and a witness *)
(* w that names it.                                                        *)
(***************************************************************************)
EXTENDS Marci

CONSTANTS p, w, v1, v2, e1

IsOnline(v, ex, addr) == [kind |-> "online", peer |-> p, version |-> v,
                          isEx |-> ex, hasAddr |-> addr]
IsUnknown == [kind |-> "unknown", peer |-> p]
IsReachable(f, as, n) == [kind |-> "reachable", peer |-> p, from |-> f,
                          addrs |-> as, network |-> n]

\* The status keys and the network: answers on both online topics, failed
\* dials, a witness.
StatusInbox == {IsOnline(v1, FALSE, FALSE), IsOnline(v1, TRUE, FALSE), IsUnknown,
                IsReachable(w, {e1}, "Pudge")}

\* A report of each kind, with addresses to be located; the online one is from
\* the second online topic.
LiveInbox == {IsOnline(v1, TRUE, TRUE), IsUnknown, IsReachable(w, {e1}, "Pudge")}

\* A peer that answers with a new version.
VersionInbox == {IsOnline(v1, FALSE, FALSE), IsOnline(v2, FALSE, FALSE)}

\* Nothing is known of an address, or its country and its position.
SomePlaces == {{}, {"country", "pos"}}

OneEach == [k \in Kind |-> 1]
==============================================================================
