----------------------------- MODULE SystemProofs -----------------------------
(***************************************************************************)
(* Proofs about System: the control centre and a dialer together, for any  *)
(* number of peers, reports on the way and faults, whether MQTT loses and  *)
(* repeats reports or not.  What is proved of the dialer alone is used     *)
(* here as it stands: the requests of the control centre are requests.     *)
(***************************************************************************)
EXTENDS System, TLAPS

P == INSTANCE DialerProofs WITH PeerId <- Peer, Request <- {}

(* The parts of the inductive invariant follow a name around the circle.   *)

\* The network kept for a peer has a service, and the peer is listed there.
Placed(p) == \E n \in D!Service : network[p] = IntoStr(n) /\ IntoStr(n) \in quick[p]

\* A dial request that the dialer can serve, for a network where the peer was
\* named.
Wanted(r) == /\ r \in D!NodeMetaInfo /\ r.peer \in Peer
             /\ r.network \in D!Service /\ IntoStr(r.network) \in quick[r.peer]

\* A peer that may be on the map.
Known(p) == p \in BootIds \/ (p \in Peer /\ quick[p] # {})

\* A report that the control centre may apply.
Sound(m) == /\ m.node \in D!NodeMetaInfo /\ m.node.network \in D!Service
            /\ m.topic = "peer/reachable" \/ Known(m.node.peer)

CentreType == /\ left \in [StatusKey -> Nat \cup {Null}]
              /\ DOMAIN reachable = Peer /\ DOMAIN network = Peer
              /\ quick \in [Peer -> SUBSET NetworkStrings]
              /\ ips \in [Peer -> SUBSET D!EndpointInfo]

CentreInv ==
    /\ CentreType
    /\ \A p \in Peer : reachable[p] # {} => Placed(p)
    /\ round # Null => \A p \in round : p \in Peer /\ Placed(p)
    /\ needs_dial # Null => Wanted(needs_dial)
    /\ ShownIsListed

TopicInv ==
    /\ \A m \in wire : Sound(m)
    /\ \A r \in calls : Wanted(r)
    /\ \A c \in asked : c[2] \in Peer
    /\ AskedWhereNamed

SystemInv == P!DialerInv /\ CentreInv /\ TopicInv

\* The lists of the networks only grow.
Grows == \A p \in Peer : quick[p] \subseteq quick'[p]

------------------------------------------------------------------------------
(* The dialer of the system is the dialer of DialerProofs.                 *)

LEMMA SameTypes ==
    /\ P!Service = D!Service /\ P!Contact = D!Contact
    /\ P!NodeMetaInfo = D!NodeMetaInfo
    /\ \A a : P!IdOf(a) = D!IdOf(a)
BY DEF P!Service, D!Service, P!Contact, D!Contact, P!NodeMetaInfo, D!NodeMetaInfo,
    P!EndpointInfo, D!EndpointInfo, P!Networks, D!Networks, P!IdOf, D!IdOf,
    P!Found, D!Found

LEMMA DialerAssumptions == P!AddressAssumption /\ P!DialerAssumption
BY SystemAssumption DEF D!AddressAssumption, P!AddressAssumption,
    D!DialerAssumption, P!DialerAssumption, D!Service, P!Service,
    D!Multiaddr, P!Multiaddr, D!Protocol, P!Protocol, D!Found, P!Found,
    D!NodeMetaInfo, P!NodeMetaInfo, D!EndpointInfo, P!EndpointInfo,
    D!IdentifyPayload, P!IdentifyPayload, D!Networks, P!Networks

LEMMA SameInit == D!Init => P!Init
BY DEF D!Init, P!Init, D!Service, P!Service, D!Contact, P!Contact,
    D!get_bootnodes, P!get_bootnodes, D!NoSession, P!NoSession

LEMMA SameReceive == ASSUME NEW r, D!Receive(r) PROVE P!Receive(r)
BY DEF D!Receive, P!Receive, D!meta_info_to_addr, P!meta_info_to_addr,
    D!Format, P!Format, D!IsLoopback, P!IsLoopback, D!p2p, P!p2p

LEMMA SamePublish ==
    ASSUME NEW m
    PROVE  /\ D!Publish(m) => P!Publish(m)
           /\ D!PublishFails(m) => P!PublishFails(m)
           /\ D!Fault => P!Fault
BY DEF D!Publish, P!Publish, D!PublishFails, P!PublishFails, D!Fault, P!Fault,
    D!process, P!process, D!p2p, P!p2p

LEMMA SameProcess == D!ProcessStep => P!ProcessStep
BY DEF D!ProcessStep, P!ProcessStep, D!RequestDial, P!RequestDial,
    D!RequestDone, P!RequestDone, D!ConnectionLost, P!ConnectionLost,
    D!Reconnect, P!Reconnect, D!StreamEnds, P!StreamEnds,
    D!MainReturns, P!MainReturns, D!Crash, P!Crash, D!Restart, P!Restart,
    D!Stop, P!Stop, D!Fault, P!Fault, D!p2p, P!p2p, D!process, P!process,
    D!Service, P!Service, D!Contact, P!Contact, D!NoSession, P!NoSession,
    D!get_bootnodes, P!get_bootnodes

LEMMA SameService == ASSUME NEW n PROVE D!ServiceStep(n) => P!ServiceStep(n)
BY DEF D!ServiceStep, P!ServiceStep, D!BootnodeDial, P!BootnodeDial,
    D!Notify, P!Notify, D!SessionOpen, P!SessionOpen,
    D!DialerError, P!DialerError, D!ServiceEnds, P!ServiceEnds,
    D!Running, P!Running, D!get_bootnodes, P!get_bootnodes,
    D!IdOf, P!IdOf, D!Found, P!Found, D!ErrorReported, P!ErrorReported,
    D!UnknownReport, P!UnknownReport, D!addr_to_node_meta, P!addr_to_node_meta,
    D!addr_to_endpoint, P!addr_to_endpoint, D!Contact, P!Contact,
    D!Service, P!Service, D!NoSession, P!NoSession, D!process, P!process

LEMMA SameSession == ASSUME NEW l PROVE D!SessionStep(l) => P!SessionStep(l)
BY DEF D!SessionStep, P!SessionStep, D!ConnectedDiscovery, P!ConnectedDiscovery,
    D!PeerIdentifies, P!PeerIdentifies, D!PeerAnswers, P!PeerAnswers,
    D!ReceivedIdentify, P!ReceivedIdentify, D!ReceivedDiscovery, P!ReceivedDiscovery,
    D!ProtocolSelectError, P!ProtocolSelectError, D!SessionClose, P!SessionClose,
    D!disconnect, P!disconnect, D!Keeps, P!Keeps, D!IsFull, P!IsFull,
    D!IsDiscovery, P!IsDiscovery, D!OnlineReport, P!OnlineReport,
    D!Named, P!Named, D!IsBad, P!IsBad, D!Panics, P!Panics,
    D!ReachableReport, P!ReachableReport, D!addr_to_node_meta, P!addr_to_node_meta,
    D!addr_to_endpoint, P!addr_to_endpoint, D!Found, P!Found,
    D!IsLoopback, P!IsLoopback, D!ErrorReported, P!ErrorReported,
    D!NoSession, P!NoSession, D!process, P!process

\* A step of the dialer alone keeps its invariant, and nobody is asked for.
LEMMA DialerAlone ==
    ASSUME P!DialerInv, DialerStep
    PROVE  P!DialerInv' /\ asked' = asked
<1> USE DialerAssumptions
<1>1. CASE D!ProcessStep
  <2>1. P!DialerInv'
    BY <1>1, SameProcess, P!ProcessInv
  <2>2. asked' = asked
    BY <1>1 DEF D!ProcessStep, D!RequestDial, D!RequestDone, D!ConnectionLost,
        D!Reconnect, D!StreamEnds, D!MainReturns, D!Crash, D!Restart, D!Stop
  <2> QED BY <2>1, <2>2
<1>2. ASSUME NEW n \in D!Service,
             D!BootnodeDial(n) \/ D!Notify(n) \/ DialEnds(n) \/ D!ServiceEnds(n)
      PROVE  P!DialerInv' /\ asked' = asked
  <2>1. D!ServiceStep(n)
    BY <1>2 DEF D!ServiceStep, DialEnds, Opens
  <2>2. P!DialerInv'
    BY <2>1, SameTypes, SameService, P!ServiceInv
  <2>3. asked' = asked
    BY <2>1 DEF D!ServiceStep, D!BootnodeDial, D!Notify, D!SessionOpen,
        D!DialerError, D!ServiceEnds, D!process
  <2> QED BY <2>2, <2>3
<1>3. ASSUME NEW l \in D!Contact, SessionSteps(l)
      PROVE  P!DialerInv' /\ asked' = asked
  <2>1. D!SessionStep(l)
    BY <1>3 DEF D!SessionStep, SessionSteps, Identifies, Answers, Closes, Asks
  <2>2. P!DialerInv'
    BY <2>1, SameTypes, SameSession, P!SessionInv
  <2>3. asked' = asked
    BY <2>1 DEF D!SessionStep, D!ConnectedDiscovery, D!PeerIdentifies,
        D!PeerAnswers, D!ReceivedIdentify, D!ReceivedDiscovery,
        D!ProtocolSelectError, D!SessionClose, D!process
  <2> QED BY <2>2, <2>3
<1>4. ASSUME NEW m \in out, D!PublishFails(m)
      PROVE  P!DialerInv' /\ asked' = asked
  <2>1. P!DialerInv'
    BY <1>4, SamePublish, P!PublishInv
  <2> QED BY <1>4, <2>1 DEF D!PublishFails, D!process
<1> QED BY <1>1, <1>2, <1>3, <1>4 DEF DialerStep

------------------------------------------------------------------------------
(* The topics *)

\* Reports, requests and what was asked stay sound, whatever else is named.
LEMMA TopicsKept ==
    ASSUME TopicInv, Grows,
           \A m \in wire' : m \in wire \/ Sound(m)',
           \A r \in calls' : r \in calls \/ Wanted(r)',
           \A c \in asked' : c \in asked \/ /\ c[2] \in Peer /\ c[1] \in D!Service
                                            /\ IntoStr(c[1]) \in quick'[c[2]]
    PROVE  TopicInv'
<1>1. \A m : Sound(m) => Sound(m)'
  BY DEF Sound, Known, Grows
<1>2. \A r : Wanted(r) => Wanted(r)'
  BY DEF Wanted, Grows
<1>3. \A c \in asked' : /\ c[2] \in Peer /\ c[1] \in D!Service
                        /\ IntoStr(c[1]) \in quick'[c[2]]
  BY DEF TopicInv, AskedWhereNamed, Grows
<1> QED BY <1>1, <1>2, <1>3 DEF TopicInv, AskedWhereNamed

\* What the dialer publishes is sound: it speaks only of bootnodes and of
\* peers that were asked for, and so were named.
LEMMA PublishedSound ==
    ASSUME P!DialerInv, TopicInv, NEW m \in out
    PROVE  Sound(m)
<1>1. m \in P!Message /\ m.node.network \in D!Service
  BY SameTypes DEF P!DialerInv, P!TypeOK, P!NamesServed
<1>2. m.node \in D!NodeMetaInfo
  BY <1>1, SameTypes DEF P!Message
<1>3. m.topic # "peer/reachable" => <<m.node.network, m.node.peer>> \in P!Told
  BY DEF P!DialerInv, P!SpeaksOfTold
<1>4. ASSUME m.topic # "peer/reachable" PROVE Known(m.node.peer)
  <2>1. CASE <<m.node.network, m.node.peer>> \in asked
    BY <2>1 DEF TopicInv, AskedWhereNamed, Known
  <2>2. CASE <<m.node.network, m.node.peer>> \notin asked
    <3>1. PICK n \in P!Service : \E a \in P!get_bootnodes(n) :
             <<m.node.network, m.node.peer>> = <<n, P!IdOf(a)>>
      BY <1>3, <1>4, <2>2 DEF P!Told
    <3> QED BY <3>1, SameTypes DEF P!get_bootnodes, BootIds, Known
  <2> QED BY <2>1, <2>2
<1> QED BY <1>1, <1>2, <1>4 DEF Sound

------------------------------------------------------------------------------
(* The control centre *)

LEMMA NetworkNames ==
    ASSUME NEW n \in D!Service
    PROVE  /\ IntoStr(n) \in NetworkStrings
           /\ FromString(IntoStr(n)) = n /\ n \in Networks
BY DEF D!Service, IntoStr, NetworkStrings, Networks, FromString, PudgeNames, DevNames

\* A report is applied: one that shows a peer is about a known peer, and one
\* that names a peer lists it.
LEMMA HandledInv ==
    ASSUME CentreInv, NEW m, Sound(m), Handled(Parsed(m))
    PROVE  CentreInv' /\ Grows
<1> DEFINE q == m.node.peer
<1>1. /\ left \in [StatusKey -> Nat \cup {Null}]
      /\ DOMAIN reachable = Peer /\ DOMAIN network = Peer
      /\ quick \in [Peer -> SUBSET NetworkStrings]
      /\ ips \in [Peer -> SUBSET D!EndpointInfo]
  BY DEF CentreInv, CentreType
<1>2. ASSUME NEW p \in Peer, NEW s \in Status PROVE <<s, p>> \in StatusKey
  BY DEF StatusKey
<1>3. CASE m.topic # "peer/reachable"
  <2>1. Known(q)
    BY <1>3 DEF Sound
  <2>2. UNCHANGED <<quick, ips, network, round, needs_dial>> /\ Grows
    BY <1>3 DEF Handled, Parsed, OnlineHandled, UnknownHandled, ReachableHandled,
        peers, Grows
  <2>3. /\ DOMAIN reachable' = Peer
        /\ \A p \in Peer : reachable'[p] # {} => reachable[p] # {}
    BY <1>1, <1>3 DEF Handled, Parsed, OnlineHandled, UnknownHandled,
        ReachableHandled, peers
  <2>4. /\ left' \in [StatusKey -> Nat \cup {Null}]
        /\ \A k \in StatusKey : k[2] # q => left'[k] = left[k]
    BY <1>1, <1>3, SystemAssumption DEF Handled, Parsed, OnlineHandled,
        UnknownHandled, ReachableHandled, Renewed
  <2>5. ShownIsListed'
    BY <1>2, <2>1, <2>2, <2>4 DEF CentreInv, ShownIsListed, InMap, Known
  <2>6. CentreType'
    BY <1>1, <2>2, <2>3, <2>4 DEF CentreType
  <2> QED
    BY <2>2, <2>3, <2>5, <2>6 DEF CentreInv, Placed, Wanted
<1>4. CASE m.topic = "peer/reachable"
  <2> DEFINE n == m.node.network
  <2>1. /\ reachable' = [reachable EXCEPT ![q] = @ \cup {m.from.peer}]
        /\ quick' = [quick EXCEPT ![q] = @ \cup {IntoStr(n)}]
        /\ ips' = [ips EXCEPT ![q] = @ \cup m.node.addrs]
        /\ network' = [network EXCEPT ![q] = IntoStr(n)]
        /\ UNCHANGED <<left, round, needs_dial>>
    BY <1>4 DEF Handled, Parsed, ReachableHandled
  <2>2. n \in D!Service /\ m.node.addrs \subseteq D!EndpointInfo
    BY DEF Sound, D!NodeMetaInfo
  <2>3. IntoStr(n) \in NetworkStrings
    BY <2>2, NetworkNames
  <2> HIDE DEF q, n
  <2>4. CentreType' /\ Grows
    BY <1>1, <2>1, <2>2, <2>3 DEF CentreType, Grows
  <2>5. \A p \in Peer : Placed(p) => Placed(p)'
    BY <1>1, <2>1, <2>2 DEF Placed
  <2>6. \A p \in Peer : reachable'[p] # {} => Placed(p)'
    BY <1>1, <2>1, <2>2, <2>5 DEF CentreInv, Placed
  <2>7. ShownIsListed'
    BY <2>1, <2>4 DEF CentreInv, ShownIsListed, InMap, Grows
  <2> QED
    BY <2>1, <2>4, <2>5, <2>6, <2>7 DEF CentreInv, Wanted, Grows
<1> QED BY <1>3, <1>4

\* The control centre asks for a peer, or a key expires.
LEMMA CentreAlone ==
    ASSUME CentreInv, RegistryStep
    PROVE  CentreInv' /\ UNCHANGED quick
<1>1. /\ left \in [StatusKey -> Nat \cup {Null}]
      /\ ips \in [Peer -> SUBSET D!EndpointInfo]
  BY DEF CentreInv, CentreType
<1>2. CASE RoundBegins
  BY <1>2 DEF RoundBegins, CentreInv, CentreType, Placed, Wanted, ShownIsListed,
      InMap, peers
<1>3. CASE RoundStep
  <2>1. UNCHANGED <<left, reachable, quick, ips, network>>
    BY <1>3 DEF RoundStep, RoundPublish, RoundEnds, peers
  <2>2. CASE RoundPublish
    <3>1. PICK p \in round : /\ needs_dial' = [peer |-> p, addrs |-> ips[p],
                                              network |-> FromString(network[p])]
                             /\ round' = round \ {p} /\ round # Null
      BY <2>2 DEF RoundPublish
    <3>2. p \in Peer /\ Placed(p)
      BY <3>1 DEF CentreInv
    <3>3. PICK n \in D!Service : network[p] = IntoStr(n) /\ IntoStr(n) \in quick[p]
      BY <3>2 DEF Placed
    <3>4. FromString(network[p]) = n /\ n \in D!Networks
      BY <3>3, NetworkNames DEF D!Networks, Networks
    <3>5. Wanted(needs_dial)'
      BY <1>1, <2>1, <3>1, <3>2, <3>3, <3>4 DEF Wanted, D!NodeMetaInfo
    <3> QED
      BY <2>1, <3>1, <3>5 DEF CentreInv, CentreType, Placed, ShownIsListed, InMap
  <2>3. CASE RoundEnds
    BY <2>1, <2>3 DEF RoundEnds, CentreInv, CentreType, Placed, Wanted,
        ShownIsListed, InMap
  <2> QED BY <1>3, <2>1, <2>2, <2>3 DEF RoundStep
<1>4. CASE Expiry
  <2>1. UNCHANGED <<reachable, quick, ips, network, round, needs_dial>>
    BY <1>4 DEF Expiry, TimePasses, KeyExpires, peers
  <2>2. /\ left' \in [StatusKey -> Nat \cup {Null}]
        /\ \A k \in StatusKey : left'[k] # Null => left[k] # Null
    <3>1. CASE TimePasses
      BY <1>1, <3>1, SystemAssumption DEF TimePasses
    <3>2. ASSUME NEW e \in StatusKey, KeyExpires(e)
          PROVE  /\ left' \in [StatusKey -> Nat \cup {Null}]
                 /\ \A k \in StatusKey : left'[k] # Null => left[k] # Null
      BY <1>1, <3>2 DEF KeyExpires
    <3> QED BY <1>4, <3>1, <3>2 DEF Expiry
  <2>3. \A p \in Peer, s \in Status : <<s, p>> \in StatusKey
    BY DEF StatusKey
  <2>4. ShownIsListed'
    BY <2>1, <2>2, <2>3 DEF CentreInv, ShownIsListed, InMap
  <2> QED
    BY <2>1, <2>2, <2>4 DEF CentreInv, CentreType, Placed, Wanted
<1> QED BY <1>2, <1>3, <1>4 DEF RegistryStep

LEMMA CentreRests ==
    ASSUME CentreInv, UNCHANGED registry
    PROVE  CentreInv' /\ Grows
BY DEF registry, vars, peers, CentreInv, CentreType, Placed, Wanted,
    ShownIsListed, InMap, Grows

LEMMA DialerRests ==
    ASSUME P!DialerInv, UNCHANGED dialer
    PROVE  P!DialerInv' /\ asked' = asked
<1>1. UNCHANGED P!vars
  BY DEF dialer, P!vars, P!process, P!p2p
<1> QED BY <1>1, DialerAssumptions, P!RestInv DEF dialer

------------------------------------------------------------------------------
(* The system *)

LEMMA SystemInitInv == SystemInit => SystemInv
<1> SUFFICES ASSUME SystemInit PROVE SystemInv
  OBVIOUS
<1>1. P!DialerInv
  BY SameInit, DialerAssumptions, P!InitInv DEF SystemInit
<1>2. CentreInv
  <2>1. \A p \in Peer, s \in Status : <<s, p>> \in StatusKey
    BY DEF StatusKey
  <2> QED BY <2>1 DEF SystemInit, Init, CentreInv, CentreType, ShownIsListed, InMap
<1>3. TopicInv
  BY DEF SystemInit, D!Init, TopicInv, AskedWhereNamed
<1> QED BY <1>1, <1>2, <1>3 DEF SystemInv

LEMMA SystemNextInv == SystemInv /\ [SystemNext]_all => SystemInv'
<1> SUFFICES ASSUME SystemInv, [SystemNext]_all PROVE SystemInv'
  OBVIOUS
<1>0. P!DialerInv /\ CentreInv /\ TopicInv
  BY DEF SystemInv
<1>1. ASSUME NEW m \in out, Publish(m) PROVE SystemInv'
  <2>1. D!Publish(m) /\ wire' \subseteq wire \cup {m} /\ UNCHANGED <<registry, calls>>
    BY <1>1 DEF Publish, ToWire, centre
  <2>2. P!DialerInv' /\ asked' = asked
    BY <1>0, <2>1, SamePublish, DialerAssumptions, P!PublishInv DEF D!Publish, D!process
  <2>3. CentreInv' /\ Grows
    BY <1>0, <2>1, CentreRests
  <2>4. Sound(m)'
    BY <1>0, <2>3, PublishedSound DEF Sound, Known, Grows
  <2>5. TopicInv'
    BY <1>0, <2>1, <2>2, <2>3, <2>4, TopicsKept
  <2> QED BY <2>2, <2>3, <2>5 DEF SystemInv
<1>2. ASSUME NEW m \in Others, OtherPublish(m) PROVE SystemInv'
  <2>1. wire' \subseteq wire \cup {m} /\ UNCHANGED <<registry, dialer, calls>>
    BY <1>2 DEF OtherPublish, ToWire, centre
  <2>2. P!DialerInv' /\ asked' = asked
    BY <1>0, <2>1, DialerRests
  <2>3. CentreInv' /\ Grows
    BY <1>0, <2>1, CentreRests
  <2>4. Sound(m)'
    BY SystemAssumption DEF Sound, Known
  <2>5. TopicInv'
    BY <1>0, <2>1, <2>2, <2>3, <2>4, TopicsKept
  <2> QED BY <2>2, <2>3, <2>5 DEF SystemInv
<1>3. ASSUME NEW m \in wire, Deliver(m) \/ DeliverTwice(m) PROVE SystemInv'
  <2>1. Handled(Parsed(m)) /\ wire' \subseteq wire /\ UNCHANGED <<dialer, calls>>
    BY <1>3 DEF Deliver, DeliverTwice, topics
  <2>2. P!DialerInv' /\ asked' = asked
    BY <1>0, <2>1, DialerRests
  <2>3. CentreInv' /\ Grows
    BY <1>0, <2>1, HandledInv DEF TopicInv
  <2>4. TopicInv'
    BY <1>0, <2>1, <2>2, <2>3, TopicsKept
  <2> QED BY <2>2, <2>3, <2>4 DEF SystemInv
<1>4. ASSUME wire' \subseteq wire, UNCHANGED <<registry, dialer, calls>>
      PROVE  SystemInv'
  <2>1. P!DialerInv' /\ asked' = asked
    BY <1>0, <1>4, DialerRests
  <2>2. CentreInv' /\ Grows
    BY <1>0, <1>4, CentreRests
  <2>3. TopicInv'
    BY <1>0, <1>4, <2>1, <2>2, TopicsKept
  <2> QED BY <2>1, <2>2, <2>3 DEF SystemInv
<1>5. CASE LinkLost
  <2>1. /\ D!Fault /\ UNCHANGED <<registry, wire, calls, asked>>
        /\ UNCHANGED <<up, mqtt, sub, req, service, boot, dialing, session, out>>
    BY <1>5 DEF LinkLost, topics
  <2>2. UNCHANGED <<P!process, P!p2p, out>>
    BY <2>1 DEF P!process, P!p2p
  <2>3. P!DialerInv'
    BY <1>0, <2>1, <2>2, SamePublish, DialerAssumptions, P!FaultInv
  <2>4. CentreInv' /\ Grows
    BY <1>0, <2>1, CentreRests
  <2>5. TopicInv'
    BY <1>0, <2>1, <2>4, TopicsKept
  <2> QED BY <2>3, <2>4, <2>5 DEF SystemInv
<1>6. CASE Ack
  <2>1. /\ needs_dial # Null /\ needs_dial' = Null
        /\ UNCHANGED <<left, reachable, quick, ips, network, round, dialer, wire>>
        /\ calls' \subseteq calls \cup {needs_dial}
    BY <1>6 DEF Ack, BrokerAck, peers
  <2>2. P!DialerInv' /\ asked' = asked
    BY <1>0, <2>1, DialerRests
  <2>3. CentreInv' /\ Grows
    BY <1>0, <2>1 DEF CentreInv, CentreType, Placed, ShownIsListed, InMap, Grows
  <2>4. Wanted(needs_dial) /\ (\A r : Wanted(r) => Wanted(r)')
    BY <1>0, <2>1 DEF CentreInv, Wanted
  <2>5. \A r \in calls' : r \in calls \/ Wanted(r)'
    BY <2>1, <2>4
  <2>6. TopicInv'
    BY <1>0, <2>1, <2>2, <2>3, <2>5, TopicsKept
  <2> QED BY <2>2, <2>3, <2>6 DEF SystemInv
<1>7. ASSUME NEW r \in calls, Call(r) PROVE SystemInv'
  <2>1. D!Receive(r) /\ calls' \subseteq calls /\ UNCHANGED <<registry, wire>>
    BY <1>7 DEF Call, centre
  <2>2. Wanted(r)
    BY <1>0 DEF TopicInv
  <2>3. P!DialerInv'
    BY <1>0, <2>1, <2>2, SameTypes, SameReceive, DialerAssumptions, P!ReceiveInv
        DEF Wanted
  <2>4. CentreInv' /\ Grows
    BY <1>0, <2>1, CentreRests
  <2>5. asked' = asked \cup {<<r.network, r.peer>>}
    BY <2>1 DEF D!Receive
  <2>6. r.peer \in Peer /\ r.network \in D!Service /\ IntoStr(r.network) \in quick'[r.peer]
    BY <2>2, <2>4 DEF Wanted, Grows
  <2>7. TopicInv'
    BY <1>0, <2>1, <2>4, <2>5, <2>6, TopicsKept
  <2> QED BY <2>3, <2>4, <2>7 DEF SystemInv
<1>8. CASE OfRegistry(RegistryStep)
  <2>1. RegistryStep /\ UNCHANGED <<dialer, wire, calls>>
    BY <1>8 DEF OfRegistry, topics
  <2>2. P!DialerInv' /\ asked' = asked
    BY <1>0, <2>1, DialerRests
  <2>3. CentreInv' /\ Grows
    BY <1>0, <2>1, CentreAlone DEF Grows
  <2>4. TopicInv'
    BY <1>0, <2>1, <2>2, <2>3, TopicsKept
  <2> QED BY <2>2, <2>3, <2>4 DEF SystemInv
<1>9. CASE OfDialer(DialerStep)
  <2>1. DialerStep /\ calls' \subseteq calls /\ UNCHANGED <<registry, wire>>
    BY <1>9 DEF OfDialer, centre
  <2>2. P!DialerInv' /\ asked' = asked
    BY <1>0, <2>1, DialerAlone
  <2>3. CentreInv' /\ Grows
    BY <1>0, <2>1, CentreRests
  <2>4. TopicInv'
    BY <1>0, <2>1, <2>2, <2>3, TopicsKept
  <2> QED BY <2>2, <2>3, <2>4 DEF SystemInv
<1>10. ASSUME NEW m \in wire, Lose(m) PROVE SystemInv'
  BY <1>4, <1>10 DEF Lose, centre
<1>11. CASE LinkBack
  BY <1>4, <1>11 DEF LinkBack
<1>12. ASSUME NEW p \in Peer, PeerDies(p) PROVE SystemInv'
  BY <1>4, <1>12 DEF PeerDies, centre, topics
<1>13. CASE UNCHANGED all
  BY <1>4, <1>13 DEF all, centre, topics
<1> QED
  BY <1>1, <1>2, <1>3, <1>5, <1>6, <1>7, <1>8, <1>9, <1>10, <1>11, <1>12, <1>13
      DEF SystemNext

\* A dialer is asked to dial a peer only on a network on which the peer was
\* named, and for which it has a service, whatever is lost, repeated or
\* reordered on the way.
THEOREM NameSurvives == SystemSpec => []AskedWhereNamed
<1>1. SystemInv => AskedWhereNamed
  BY DEF SystemInv, TopicInv
<1> QED BY <1>1, SystemInitInv, SystemNextInv, PTL DEF SystemSpec

\* A peer on the map is listed under a network, or is a bootnode.
THEOREM OnlyListedShown == SystemSpec => []ShownIsListed
<1>1. SystemInv => ShownIsListed
  BY DEF SystemInv, CentreInv
<1> QED BY <1>1, SystemInitInv, SystemNextInv, PTL DEF SystemSpec
=============================================================================
