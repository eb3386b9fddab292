------------------------------- MODULE Registry -------------------------------
(***************************************************************************)
(* What the control centre makes of reports, one step per report: the      *)
(* abstraction of Marci that System composes with a dialer.  It leaves out *)
(* the channels, the single commands to Redis, locations and failures.     *)
(* Marci implements it until a failure happens (ImplementsRegistry).       *)
(***************************************************************************)
EXTENDS Naturals, FiniteSets, NodeTypes

CONSTANTS
    Peer, Null, Inbox, WitnessThreshold, OnlineTimeout, UnknownTimeout

Status == {"online", "online2", "unknown"}
StatusKey == Status \X Peer

VARIABLES
    left,        \* [StatusKey -> time units left]; Null = no such key
    reachable,   \* the witnesses of each peer
    quick,       \* the networks indexed for each peer
    ips,         \* the addresses of each peer
    network,     \* the network of each peer, "" when absent
    round,       \* the peers still to be sent to the dialers, Null between rounds
    needs_dial   \* the publish that is not acknowledged yet

peers == <<reachable, quick, ips, network>>
vars == <<left, peers, round, needs_dial>>

Online(p)  == left[<<"online", p>>] # Null
InMap(p) == \E s \in Status : left[<<s, p>>] # Null

Init ==
    /\ left = [k \in StatusKey |-> Null]
    /\ reachable = [p \in Peer |-> {}]
    /\ quick = [p \in Peer |-> {}]
    /\ ips = [p \in Peer |-> {}]
    /\ network = [p \in Peer |-> ""]
    /\ round = Null /\ needs_dial = Null

------------------------------------------------------------------------------

\* EXPIRE on the online key: one that is due may be gone before.
Renewed(p) == {OnlineTimeout} \cup (IF left[<<"online", p>>] = 0 THEN {Null} ELSE {})

OnlineHandled(m) ==
    LET key == <<IF m.isEx /\ ~Online(m.peer) THEN "online2" ELSE "online", m.peer>>
    IN  /\ round = Null
        /\ \E t \in IF Online(m.peer) THEN Renewed(m.peer) ELSE {OnlineTimeout} :
              left' = [left EXCEPT ![key] = t, ![<<"unknown", m.peer>>] = Null]
        /\ UNCHANGED <<peers, round, needs_dial>>

\* Mutant: one witness more is needed.
UnknownHandledStrict(m) ==
    /\ round = Null
    /\ \/ /\ Online(m.peer)
          /\ \E t \in Renewed(m.peer) : left' = [left EXCEPT ![<<"online", m.peer>>] = t]
          /\ UNCHANGED reachable
       \/ /\ ~Online(m.peer)
          /\ Cardinality(reachable[m.peer]) > WitnessThreshold
          /\ left' = [left EXCEPT ![<<"unknown", m.peer>>] = UnknownTimeout]
          /\ reachable' = [reachable EXCEPT ![m.peer] = {}]
       \/ /\ ~Online(m.peer)
          /\ Cardinality(reachable[m.peer]) <= WitnessThreshold
          /\ UNCHANGED <<left, reachable>>
    /\ UNCHANGED <<quick, ips, network, round, needs_dial>>

UnknownHandled(m) ==
    /\ round = Null
    /\ \/ /\ Online(m.peer)
          /\ \E t \in Renewed(m.peer) : left' = [left EXCEPT ![<<"online", m.peer>>] = t]
          /\ UNCHANGED reachable
       \/ /\ ~Online(m.peer)
          /\ Cardinality(reachable[m.peer]) >= WitnessThreshold
          /\ left' = [left EXCEPT ![<<"unknown", m.peer>>] = UnknownTimeout]
          /\ reachable' = [reachable EXCEPT ![m.peer] = {}]
       \/ /\ ~Online(m.peer)
          /\ Cardinality(reachable[m.peer]) < WitnessThreshold
          /\ UNCHANGED <<left, reachable>>
    /\ UNCHANGED <<quick, ips, network, round, needs_dial>>

\* Mutant: only peers that are on the map are indexed.
ReachableHandledUnlisted(m) ==
    /\ round = Null
    /\ reachable' = [reachable EXCEPT ![m.peer] = @ \cup {m.from}]
    /\ quick' = [quick EXCEPT ![m.peer] = IF InMap(m.peer) THEN @ \cup {IntoStr(m.network)} ELSE @]
    /\ ips' = [ips EXCEPT ![m.peer] = @ \cup m.addrs]
    /\ network' = [network EXCEPT ![m.peer] = IntoStr(m.network)]
    /\ UNCHANGED <<left, round, needs_dial>>

ReachableHandled(m) ==
    /\ round = Null
    /\ reachable' = [reachable EXCEPT ![m.peer] = @ \cup {m.from}]
    /\ quick' = [quick EXCEPT ![m.peer] = @ \cup {IntoStr(m.network)}]
    /\ ips' = [ips EXCEPT ![m.peer] = @ \cup m.addrs]
    /\ network' = [network EXCEPT ![m.peer] = IntoStr(m.network)]
    /\ UNCHANGED <<left, round, needs_dial>>

Handled(m) ==
    \/ m.kind = "online" /\ OnlineHandled(m)
    \/ m.kind = "unknown" /\ UnknownHandled(m)
    \/ m.kind = "reachable" /\ ReachableHandled(m)

------------------------------------------------------------------------------
(* The timer: every peer that has a witness is sent to the dialers. *)

RoundBegins ==
    /\ round = Null
    /\ round' = {p \in Peer : reachable[p] # {}}
    /\ UNCHANGED <<left, peers, needs_dial>>

RoundPublish ==
    /\ round # Null /\ needs_dial = Null
    /\ \E p \in round :
          /\ needs_dial' = [peer |-> p, addrs |-> ips[p],
                            network |-> FromString(network[p])]
          /\ round' = round \ {p}
    /\ UNCHANGED <<left, peers>>

RoundEnds ==
    /\ round = {} /\ needs_dial = Null
    /\ round' = Null
    /\ UNCHANGED <<left, peers, needs_dial>>

RoundStep == RoundPublish \/ RoundEnds

BrokerAck ==
    /\ needs_dial # Null
    /\ needs_dial' = Null
    /\ UNCHANGED <<left, peers, round>>

------------------------------------------------------------------------------

KeyExpires(k) ==
    /\ left[k] = 0
    /\ left' = [left EXCEPT ![k] = Null]
    /\ UNCHANGED <<peers, round, needs_dial>>

\* Mutant: the unknown key has no time to live (SET for SETEX).
TimePassesOnline ==
    /\ \A k \in StatusKey : left[k] # 0
    /\ \E k \in StatusKey : left[k] # Null
    /\ left' = [k \in StatusKey |-> IF left[k] = Null \/ k[1] = "unknown" THEN left[k]
                                   ELSE left[k] - 1]
    /\ UNCHANGED <<peers, round, needs_dial>>

TimePasses ==
    /\ \A k \in StatusKey : left[k] # 0
    /\ \E k \in StatusKey : left[k] # Null
    /\ left' = [k \in StatusKey |-> IF left[k] = Null THEN Null ELSE left[k] - 1]
    /\ UNCHANGED <<peers, round, needs_dial>>

Next ==
    \/ \E m \in Inbox : Handled(m)
    \/ RoundBegins \/ RoundStep \/ BrokerAck
    \/ \E k \in StatusKey : KeyExpires(k)
    \/ TimePasses

Spec == Init /\ [][Next]_vars
==============================================================================
