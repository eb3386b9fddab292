------------------------------ MODULE MCExposed ------------------------------
(***************************************************************************)
(* Small instances of Exposed: two requests on one worker.                 *)
(***************************************************************************)
EXTENDS Exposed, TLC

CONSTANTS p1, r1, r2, w1

Ask(n) == [kind |-> "peer", network |-> n]
AskStatus(p) == [kind |-> "peer_status", peer |-> p]
AskHealth == [kind |-> "health"]

\* The lists of two networks, and the status of a peer.
MapQueries == {Ask("ckb"), Ask("pudge"), AskStatus(p1)}
\* Every endpoint, and a network that is not supported.
AllQueries == {Ask("pudge"), Ask("dev"), AskStatus(p1), AskHealth}

SameWorker == [r \in Request |-> w1]

\* The two requests are alike.  (For the safety properties only.)
Alike == Permutations(Request)
==============================================================================
