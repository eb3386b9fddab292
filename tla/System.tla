-------------------------------- MODULE System --------------------------------
(***************************************************************************)
(* The control centre and a dialer, connected by MQTT, and the peers.      *)
(* Every step of Registry and of Dialer is a step of the system.  What     *)
(* Dialer publishes is what Registry handles, the dial requests of         *)
(* Registry are what Dialer receives, and the peers live and die.          *)
(*                                                                         *)
(* MQTT keeps no order between topics and between publishing tasks, and    *)
(* may deliver a report twice (QoS 1).  Neither side asks for an old       *)
(* session when it connects (clean_start), so what is sent while the       *)
(* receiver is away is lost.                                               *)
(***************************************************************************)
EXTENDS Registry

CONSTANTS
    Version, NoId, Ip, Loopback, Localhost, Port, NoPort,        \* of Addresses
    Bootnodes, Payload, NodesList, Malformed, MaxFaults, \* of Dialer
    Others,      \* reports that other dialers may publish
    Mortal,      \* peers that may die
    Unreliable,  \* reports may be lost or delivered twice
    MaxWire      \* bound on the reports on the way

VARIABLES
    up, mqtt, sub, req, service, boot, dialing, session, out, asked, faults,
    wire,   \* reports on the way to the control centre
    calls,  \* dial requests on the way to the dialer
    live,   \* the peers that are up
    link,   \* the MQTT task of the control centre: "run" or "lost"
    heard   \* the broker has its subscriptions

dialer == <<up, mqtt, sub, req, service, boot, dialing, session, out, asked, faults>>
registry == vars
centre == <<registry, link, heard>>
topics == <<wire, calls>>
all == <<centre, dialer, topics, live>>

D == INSTANCE Dialer WITH PeerId <- Peer, Request <- {}

\* Bootnodes are dialed without being named.
BootIds == UNION {{D!IdOf(a) : a \in Bootnodes[n]} : n \in D!Service}

\* Other dialers have a service for the same networks.  They hear of peers
\* before anybody is asked to dial them, and dial the same bootnodes.
ASSUME SystemAssumption ==
    /\ D!AddressAssumption /\ D!DialerAssumption
    /\ \A m \in Others :
          /\ m.node \in D!NodeMetaInfo /\ m.node.network \in D!Service
          /\ m.topic = "peer/reachable" \/ m.node.peer \in BootIds
    /\ {OnlineTimeout, UnknownTimeout} \subseteq Nat

SystemInit ==
    /\ Init /\ D!Init
    /\ wire = {} /\ calls = {}
    /\ live = Peer
    /\ link = "run" /\ heard = TRUE

------------------------------------------------------------------------------
(* MQTT *)

\* Mutant: online reports are taken for reports of a failed dial.
ParsedMixed(m) ==
    IF m.topic = "peer/reachable"
    THEN [kind |-> "reachable", peer |-> m.node.peer, from |-> m.from.peer,
          addrs |-> m.node.addrs, network |-> m.node.network]
    ELSE [kind |-> "unknown", peer |-> m.node.peer]

\* The report as the control centre reads it, by topic.  The dialer sets is_ex to false.
Parsed(m) ==
    IF m.topic = "peer/online"
    THEN [kind |-> "online", peer |-> m.node.peer, isEx |-> FALSE]
    ELSE IF m.topic = "peer/reachable"
    THEN [kind |-> "reachable", peer |-> m.node.peer, from |-> m.from.peer,
          addrs |-> m.node.addrs, network |-> m.node.network]
    ELSE [kind |-> "unknown", peer |-> m.node.peer]

\* Without a subscription the broker drops what is published.
ToWire(m) ==
    /\ Cardinality(wire) < MaxWire
    /\ wire' = IF heard THEN wire \cup {m} ELSE wire

Publish(m) == D!Publish(m) /\ ToWire(m) /\ UNCHANGED <<centre, calls, live>>
OtherPublish(m) == ToWire(m) /\ UNCHANGED <<centre, dialer, calls, live>>

Deliver(m) ==
    /\ link = "run" /\ Handled(Parsed(m))
    /\ wire' = wire \ {m}
    /\ UNCHANGED <<dialer, calls, live, link, heard>>

DeliverTwice(m) ==
    /\ Unreliable
    /\ link = "run" /\ Handled(Parsed(m))
    /\ UNCHANGED <<dialer, topics, live, link, heard>>

Lose(m) ==
    /\ Unreliable
    /\ wire' = wire \ {m}
    /\ UNCHANGED <<centre, dialer, calls, live>>

\* The control centre loses its connection, and connects again without
\* subscribing again: the broker may have kept the session or not.
LinkLost ==
    /\ link = "run" /\ D!Fault
    /\ link' = "lost"
    /\ UNCHANGED <<registry, heard, up, mqtt, sub, req, service, boot, dialing,
                   session, out, asked, topics, live>>

LinkBack ==
    /\ link = "lost"
    /\ link' = "run" /\ heard' \in {heard, FALSE}
    /\ wire' = IF heard' THEN wire ELSE {}
    /\ UNCHANGED <<registry, dialer, calls, live>>

\* The broker acknowledges a dial request and passes it on if somebody has
\* subscribed.
Ack ==
    /\ BrokerAck
    /\ calls' = IF sub THEN calls \cup {needs_dial} ELSE calls
    /\ UNCHANGED <<dialer, wire, live, link, heard>>

Call(r) ==
    /\ D!Receive(r)
    /\ calls' = calls \ {r}
    /\ UNCHANGED <<centre, wire, live>>

------------------------------------------------------------------------------
(* The peers *)

PeerDies(p) ==
    /\ p \in live \cap Mortal
    /\ live' = live \ {p}
    /\ UNCHANGED <<centre, dialer, topics>>

Opens(n, a) == D!IdOf(a) \in live /\ D!SessionOpen(n, a)
Identifies(l) == l[2] \in live /\ \E m \in Payload : D!PeerIdentifies(l, m)
Answers(l) == l[2] \in live /\ \E m \in NodesList : D!PeerAnswers(l, m)
Closes(l) == (session[l].state = "closing" \/ l[2] \notin live) /\ D!SessionClose(l)
DialEnds(n) == \E a \in dialing[n] : Opens(n, a) \/ D!DialerError(n, a)

\* GetNodes is sent; without a peer that answers, that makes no difference.
Asks(l) == NodesList # {} /\ D!ConnectedDiscovery(l)

SessionSteps(l) ==
    \/ Identifies(l) \/ Answers(l) \/ Closes(l)
    \/ Asks(l) \/ D!ReceivedIdentify(l) \/ D!ReceivedDiscovery(l)
    \/ D!ProtocolSelectError(l)

\* A step of one side alone.  Without its subscription, the dialer loses the
\* requests that are on the way.
OfDialer(A) ==
    /\ A
    /\ calls' = IF sub' THEN calls ELSE {}
    /\ UNCHANGED <<centre, wire, live>>
OfRegistry(A) == A /\ UNCHANGED <<dialer, topics, live, link, heard>>

DialerStep ==
    \/ D!ProcessStep
    \/ \E n \in D!Service : \/ D!BootnodeDial(n) \/ D!Notify(n)
                             \/ DialEnds(n) \/ D!ServiceEnds(n)
    \/ \E l \in D!Contact : SessionSteps(l)
    \/ \E m \in out : D!PublishFails(m)

Expiry == TimePasses \/ \E k \in StatusKey : KeyExpires(k)

RegistryStep ==
    \/ RoundBegins \/ RoundStep
    \/ Expiry

SystemNext ==
    \/ \E m \in out : Publish(m)
    \/ \E m \in Others : OtherPublish(m)
    \/ \E m \in wire : Deliver(m) \/ DeliverTwice(m) \/ Lose(m)
    \/ LinkLost \/ LinkBack
    \/ Ack \/ \E r \in calls : Call(r)
    \/ \E p \in Peer : PeerDies(p)
    \/ OfRegistry(RegistryStep) \/ OfDialer(DialerStep)

SystemSpec == SystemInit /\ [][SystemNext]_all

\* The fairness of both sides, of MQTT and of Redis, in as few conditions as
\* the properties need: time passes and keys expire, rounds are begun and
\* finished, what is published is delivered, requests are dialed, and a peer
\* that is up identifies itself.
SystemFairness ==
    /\ SF_all(OfRegistry(Expiry))
    /\ SF_all(OfRegistry(RoundBegins))
    /\ WF_all(OfRegistry(RoundStep) \/ Ack)
    /\ WF_all((\E r \in calls : Call(r)) \/ OfDialer(D!RequestDial \/ D!RequestDone))
    /\ SF_all(\E m \in wire : Deliver(m))
    /\ SF_all(\E m \in out : m.topic = "peer/online" /\ Publish(m))
    /\ SF_all(\E m \in out : m.topic = "peer/unknown" /\ Publish(m))
    /\ WF_all(OfDialer(\/ \E n \in D!Service : DialEnds(n)
                       \/ \E l \in D!Contact : Identifies(l) \/ Closes(l)))
    /\ SF_all(OfDialer(\E l \in D!Contact : D!ReceivedIdentify(l)))

SystemFairSpec == SystemSpec /\ SystemFairness

------------------------------------------------------------------------------
(* Properties *)

\* The dialer is asked to dial a peer only on a network on which the peer was
\* named, and never on Dev, for which it has no service and would panic
\* (`unreachable!()`): the name of the network survives the way from a dialer
\* through Redis and back.
AskedWhereNamed ==
    \A c \in asked : c[1] \in D!Service /\ IntoStr(c[1]) \in quick[c[2]]

\* A peer on the map is listed under a network, so that the query service
\* shows it: online reports do not list a peer, but a peer is dialed, and so
\* reported as online or unknown, only after it was named and listed.
ShownIsListed ==
    \A p \in Peer \ BootIds : InMap(p) =>
        quick[p] # {}

\* A session of the peer was closed before its Identify message was handled.
ClosedUnheard(p) == \E n \in D!Service :
    session[<<n, p>>].state = "closing" /\ ~session[<<n, p>>].greeted

CanBeDialed(p) == \E e \in ips[p] : ~D!IsLoopback(e)

\* A peer that enough others have named comes on the map, whether it can be
\* dialed or not, unless a session with it is closed before its Identify
\* message was handled: no protocol was agreed on, or the nodes it names were
\* handled first.
NamedIsShown ==
    \A p \in Peer :
        (CanBeDialed(p) /\ Cardinality(reachable[p]) >= WitnessThreshold)
            ~> (InMap(p) \/ ClosedUnheard(p))

\* A peer that has identified itself is shown as online in the end, in
\* whichever order its report and those of failed dials arrive.
Answered(p) == \E m \in out : m.topic = "peer/online" /\ m.node.peer = p
AnsweredIsOnline == \A p \in Peer : Answered(p) ~> Online(p)

\* A peer that is down for good leaves the map, if nobody names it any more.
\* As long as it has witnesses it does not need to: it is dialed again and
\* again, and each failed dial renews its online key.  The same holds for a
\* bootnode.
DeadPeerLeaves ==
    \A p \in Peer \ BootIds :
        <>[](p \notin live /\ reachable[p] = {}) => <>[](~InMap(p))
==============================================================================
