-------------------------------- MODULE Dialer --------------------------------
(***************************************************************************)
(* src/main.rs and src/handler.rs: the dialer.  A task reads dial requests *)
(* from MQTT; one peer-to-peer service per network dials them, and dials   *)
(* its bootnodes on its own.  Each service runs the handler in a task per  *)
(* protocol, so what a peer sends over Identify and over Discovery is      *)
(* handled in any order.  Reports are published by spawned tasks, except   *)
(* for the one about a failed dial, which is awaited.                      *)
(*                                                                         *)
(* The peer-to-peer library (tentacle), the MQTT client (paho) and the     *)
(* peers are the environment: a dial ends in a session or in an error, a   *)
(* peer sends messages or goes away, a disconnect takes effect later, and  *)
(* a service whose handler has panicked may end.                           *)
(***************************************************************************)
EXTENDS Addresses

CONSTANTS
    Version,     \* client versions
    Null,
    Bootnodes,   \* the table of get_bootnodes
    Request,     \* the dial requests that may arrive
    Payload,     \* the Identify messages that peers may send
    NodesList,   \* the Nodes messages that peers may send
    Malformed,   \* bytes that are not a multiaddress, or not a message
    MaxFaults    \* bound on the faults of a behaviour

\* main builds two services; there is none for Dev.
Service == {"Mirana", "Pudge"}
Contact == Service \X PeerId

\* What the handler reads of an Identify message.
IdentifyPayload == [version : Version, flag : Nat]

ASSUME DialerAssumption ==
    /\ Bootnodes \in [Service -> SUBSET Multiaddr]
    /\ \A n \in Service : \A a \in Bootnodes[n] :
          /\ Found(a, "ip", Localhost) \notin Loopback
          /\ Found(a, "p2p", NoId) \in PeerId
    /\ Request \subseteq NodeMetaInfo
    /\ Payload \subseteq IdentifyPayload \cup {Malformed}
    /\ NodesList \subseteq Seq(Seq(Multiaddr \cup {Malformed}))
    /\ MaxFaults \in Nat
    /\ Null \notin NodeMetaInfo \cup Payload \cup NodesList

VARIABLES
    up,        \* the process runs
    mqtt,      \* the MQTT task: "run", "lost" (no connection) or "ended"
    sub,       \* the broker has a subscription for peer/needs_dial
    req,       \* the request in hand: its network and the addresses to dial
    service,   \* each service: "run", "panicked" (in Discovery) or "ended"
    boot,      \* the bootnodes the Identify task has still to dial
    dialing,   \* the dials each service works on
    session,   \* the sessions, at most one per service and peer
    out,       \* the reports that are being published
    asked,     \* history: the peers that were requested
    faults     \* history: the faults so far

process == <<up, mqtt, sub, req, asked>>
p2p == <<service, boot, dialing, session>>
vars == <<process, p2p, out, faults>>

\* state: "none", "open" or "closing"; getNodes: the request was sent
\* ("asked"), could not be sent ("failed") or is still to be sent ("new");
\* identify and nodes: a message not handled yet.  greeted is history: an
\* Identify message was handled.
NoSession == [state |-> "none", addr |-> Null, getNodes |-> "new",
              identify |-> Null, nodes |-> Null, greeted |-> FALSE]

get_bootnodes(n) == Bootnodes[n]
IdOf(a) == Found(a, "p2p", NoId)

Running(n) == up /\ service[n] # "ended"

\* The process starts: it has connected to MQTT and subscribed, and the init
\* callback of each service has its bootnodes to dial.
Init ==
    /\ up = TRUE /\ mqtt = "run" /\ sub = TRUE /\ req = Null
    /\ service = [n \in Service |-> "run"]
    /\ boot = [n \in Service |-> get_bootnodes(n)]
    /\ dialing = [n \in Service |-> {}]
    /\ session = [l \in Contact |-> NoSession]
    /\ out = {} /\ asked = {} /\ faults = 0

Fault == faults < MaxFaults /\ faults' = faults + 1

------------------------------------------------------------------------------
(* The MQTT task *)

\* A request arrives.  Addresses that cannot be dialed are dropped at once.
Receive(r) ==
    /\ up /\ mqtt = "run" /\ sub /\ req = Null
    /\ req' = [network |-> r.network, todo |-> meta_info_to_addr(r)]
    /\ asked' = asked \cup {<<r.network, r.peer>>}
    /\ UNCHANGED <<up, mqtt, sub, p2p, out, faults>>

\* The next address is handed to its service.  A service that has ended
\* refuses it, which is logged; for Dev the task panics.
RequestDial ==
    /\ up /\ mqtt = "run" /\ req # Null
    /\ \E a \in req.todo :
          IF req.network \in Service
          THEN /\ req' = [req EXCEPT !.todo = @ \ {a}]
               /\ dialing' = IF service[req.network] = "ended" THEN dialing
                             ELSE [dialing EXCEPT ![req.network] = @ \cup {a}]
               /\ UNCHANGED mqtt
          ELSE mqtt' = "ended" /\ req' = Null /\ UNCHANGED dialing
    /\ UNCHANGED <<up, sub, asked, service, boot, session, out, faults>>

RequestDone ==
    /\ up /\ req # Null /\ req.todo = {}
    /\ req' = Null
    /\ UNCHANGED <<up, mqtt, sub, asked, p2p, out, faults>>

\* The connection is lost; the task sees it when it reads the next message.
ConnectionLost ==
    /\ up /\ mqtt = "run" /\ req = Null /\ Fault
    /\ mqtt' = "lost"
    /\ UNCHANGED <<up, sub, req, asked, p2p, out>>

\* It connects again but does not subscribe again: whether requests go on
\* to arrive depends on what the broker has kept of the session.
Reconnect ==
    /\ up /\ mqtt = "lost"
    /\ mqtt' = "run" /\ sub' \in {sub, FALSE}
    /\ UNCHANGED <<up, req, asked, p2p, out, faults>>

\* The stream of messages ends, and the task panics.
StreamEnds ==
    /\ up /\ mqtt = "run" /\ req = Null /\ Fault
    /\ mqtt' = "ended"
    /\ UNCHANGED <<up, sub, req, asked, p2p, out>>

Stop ==
    /\ up' = FALSE /\ mqtt' = "ended" /\ sub' = FALSE /\ req' = Null
    /\ service' = [n \in Service |-> "ended"]
    /\ boot' = [n \in Service |-> {}] /\ dialing' = [n \in Service |-> {}]
    /\ session' = [l \in Contact |-> NoSession]
    /\ out' = {}
    /\ UNCHANGED asked

\* Mutant: main waits for the services first.
MainReturnsLate ==
    /\ up /\ mqtt = "ended" /\ \A n \in Service : service[n] = "ended"
    /\ Stop /\ UNCHANGED faults

\* main waits for the MQTT task, and the process ends with it.
MainReturns == up /\ mqtt = "ended" /\ Stop /\ UNCHANGED faults

Crash == up /\ Fault /\ Stop

Restart ==
    /\ ~up
    /\ up' = TRUE /\ mqtt' = "run" /\ sub' = TRUE
    /\ service' = [n \in Service |-> "run"]
    /\ boot' = [n \in Service |-> get_bootnodes(n)]
    /\ UNCHANGED <<req, asked, dialing, session, out, faults>>

------------------------------------------------------------------------------
(* Dialing *)

\* The Identify task dials the bootnodes one by one, in its init callback and
\* in the notify callback of its timer.
BootnodeDial(n) ==
    /\ Running(n)
    /\ \E a \in boot[n] :
          /\ boot' = [boot EXCEPT ![n] = @ \ {a}]
          /\ dialing' = [dialing EXCEPT ![n] = @ \cup {a}]
    /\ UNCHANGED <<process, service, session, out, faults>>

\* Mutant: the token of the timer is not recognised.
NotifyIgnored(n) == Running(n) /\ boot[n] = {} /\ UNCHANGED vars

Notify(n) ==
    /\ Running(n) /\ boot[n] = {}
    /\ boot' = [boot EXCEPT ![n] = get_bootnodes(n)]
    /\ UNCHANGED <<process, service, dialing, session, out, faults>>

SessionOpen(n, a) ==
    LET l == <<n, IdOf(a)>>
    IN  /\ Running(n) /\ a \in dialing[n]
        /\ session[l].state = "none"
        /\ dialing' = [dialing EXCEPT ![n] = @ \ {a}]
        /\ session' = [session EXCEPT ![l].state = "open", ![l].addr = a]
        /\ UNCHANGED <<process, service, boot, out, faults>>

\* Mutant: the endpoint is reported, not the node.
UnknownReportEndpoint(n, a) == [topic |-> "peer/unknown", node |-> addr_to_endpoint(a)]

UnknownReport(n, a) == [topic |-> "peer/unknown", node |-> addr_to_node_meta(a, n)]

\* handle_error awaits its publish, so there is one such report at a time.
ErrorReported(n) ==
    \E m \in out : m.topic = "peer/unknown" /\ m.node.network = n

\* Any error of a dial, also that there is a session with the peer already.
DialerError(n, a) ==
    /\ Running(n) /\ a \in dialing[n] /\ ~ErrorReported(n)
    /\ dialing' = [dialing EXCEPT ![n] = @ \ {a}]
    /\ out' = out \cup {UnknownReport(n, a)}
    /\ UNCHANGED <<process, service, boot, session, faults>>
------------------------------------------------------------------------------
(* Sessions *)

disconnect(l) == [session EXCEPT ![l].state = IF @ = "open" THEN "closing" ELSE @]

\* The connected callback of Discovery sends GetNodes.
ConnectedDiscovery(l) ==
    /\ session[l].state # "none" /\ session[l].getNodes = "new"
    /\ service[l[1]] = "run"
    /\ \E r \in {"asked", "failed"} :
          session' = [session EXCEPT ![l].getNodes = r]
    /\ UNCHANGED <<process, service, boot, dialing, out, faults>>

\* The peer sends an Identify message, or answers GetNodes.
PeerIdentifies(l, m) ==
    /\ session[l].state = "open" /\ session[l].identify = Null
    /\ session' = [session EXCEPT ![l].identify = m]
    /\ UNCHANGED <<process, service, boot, dialing, out, faults>>

PeerAnswers(l, m) ==
    /\ session[l].state = "open" /\ session[l].getNodes = "asked"
    /\ session[l].nodes = Null
    /\ session' = [session EXCEPT ![l].nodes = m]
    /\ UNCHANGED <<process, service, boot, dialing, out, faults>>

\* The flags of an Identify message: bit 1 is Discovery, bits 1 to 4 are what
\* a full node offers; nodes that send no flag but bit 0 are taken for full.
IsDiscovery(flag) == (flag \div 2) % 2 = 1
IsFull(flag) == flag \in {0, 1} \/ (flag \div 2) % 16 = 15

OnlineReport(l, m) ==
    [topic |-> "peer/online", node |-> addr_to_node_meta(session[l].addr, l[1]),
     version |-> m.version, full |-> IsFull(m.flag)]

\* The session is kept after this Identify message.
Keeps(m) == m # Malformed /\ (IsFull(m.flag) \/ IsDiscovery(m.flag))

\* The Identify task handles a message, when it is not dialing bootnodes.
ReceivedIdentify(l) ==
    LET m == session[l].identify
        s == IF Keeps(m) THEN session ELSE disconnect(l)
    IN  /\ session[l].state # "none" /\ m # Null
        /\ boot[l[1]] = {}
        /\ session' = [s EXCEPT ![l].identify = Null,
                                ![l].greeted = @ \/ m # Malformed]
        /\ out' = IF m = Malformed THEN out ELSE out \cup {OnlineReport(l, m)}
        /\ UNCHANGED <<process, service, boot, dialing, faults>>

\* The nodes of a Nodes message that are reported: those with an address, up
\* to the first that has a malformed one, at which the task panics.
IsBad(item) == \E i \in DOMAIN item : item[i] = Malformed
Named(items) ==
    {items[i] : i \in {j \in DOMAIN items :
        items[j] # <<>> /\ \A k \in 1..j : ~IsBad(items[k])}}
Panics(items) == \E i \in DOMAIN items : IsBad(items[i])

\* Mutant: the peer and its witness are swapped.
ReachableReportSwapped(l, item) ==
    [topic |-> "peer/reachable", from |-> addr_to_node_meta(item[1], l[1]),
     node |-> addr_to_node_meta(session[l].addr, l[1])]

ReachableReport(l, item) ==
    LET meta == addr_to_node_meta(item[1], l[1])
        all  == meta.addrs \cup {addr_to_endpoint(item[i]) : i \in DOMAIN item}
    IN  [topic |-> "peer/reachable",
         node |-> [meta EXCEPT !.addrs = {e \in all : ~IsLoopback(e)}],
         from |-> addr_to_node_meta(session[l].addr, l[1])]

\* Mutant: the session is not disconnected.
ReceivedDiscoveryStays(l) ==
    LET items == session[l].nodes
    IN  /\ session[l].state # "none" /\ items # Null
        /\ service[l[1]] = "run"
        /\ session' = [session EXCEPT ![l].nodes = Null]
        /\ out' = out \cup {ReachableReport(l, i) : i \in Named(items)}
        /\ UNCHANGED <<process, service, boot, dialing, faults>>

\* The Discovery task handles a message: a report and a disconnect for every
\* node that is named.  The loop is one step, since nothing it waits for can
\* change what it does.  A list that is no message has no nodes.
ReceivedDiscovery(l) ==
    LET items == session[l].nodes
        s == IF Named(items) = {} THEN session ELSE disconnect(l)
    IN  /\ session[l].state # "none" /\ items # Null
        /\ service[l[1]] = "run"
        /\ session' = [s EXCEPT ![l].nodes = Null]
        /\ out' = out \cup {ReachableReport(l, i) : i \in Named(items)}
        /\ service' = IF Panics(items)
                      THEN [service EXCEPT ![l[1]] = "panicked"] ELSE service
        /\ UNCHANGED <<process, boot, dialing, faults>>

\* No protocol is agreed on: handle_error disconnects.
ProtocolSelectError(l) ==
    /\ session[l].state = "open" /\ ~ErrorReported(l[1])
    /\ session' = disconnect(l)
    /\ UNCHANGED <<process, service, boot, dialing, out, faults>>

\* The session ends, by a disconnect or because the peer goes.  What it has
\* sent and nobody has handled is dropped.
SessionClose(l) ==
    /\ session[l].state # "none"
    /\ session' = [session EXCEPT ![l] = NoSession]
    /\ UNCHANGED <<process, service, boot, dialing, out, faults>>

\* A service whose handler has panicked may end.  main does not notice: it
\* waits for the MQTT task.
ServiceEnds(n) ==
    /\ up /\ service[n] = "panicked"
    /\ service' = [service EXCEPT ![n] = "ended"]
    /\ boot' = [boot EXCEPT ![n] = {}] /\ dialing' = [dialing EXCEPT ![n] = {}]
    /\ session' = [l \in Contact |-> IF l[1] = n THEN NoSession ELSE session[l]]
    /\ UNCHANGED <<process, out, faults>>

------------------------------------------------------------------------------
(* Publishing *)

Publish(m) ==
    /\ m \in out /\ mqtt # "lost"
    /\ out' = out \ {m}
    /\ UNCHANGED <<process, p2p, faults>>

\* The failure is logged, the report is lost.
PublishFails(m) ==
    /\ m \in out /\ Fault
    /\ out' = out \ {m}
    /\ UNCHANGED <<process, p2p>>

------------------------------------------------------------------------------

ServiceStep(n) ==
    \/ BootnodeDial(n) \/ Notify(n)
    \/ \E a \in dialing[n] : SessionOpen(n, a) \/ DialerError(n, a)
    \/ ServiceEnds(n)

SessionStep(l) ==
    \/ ConnectedDiscovery(l)
    \/ \E m \in Payload : PeerIdentifies(l, m)
    \/ \E m \in NodesList : PeerAnswers(l, m)
    \/ ReceivedIdentify(l) \/ ReceivedDiscovery(l)
    \/ ProtocolSelectError(l) \/ SessionClose(l)

ProcessStep ==
    \/ RequestDial \/ RequestDone
    \/ ConnectionLost \/ Reconnect \/ StreamEnds
    \/ MainReturns \/ Crash \/ Restart

Next ==
    \/ \E r \in Request : Receive(r)
    \/ ProcessStep
    \/ \E n \in Service : ServiceStep(n)
    \/ \E l \in Contact : SessionStep(l)
    \/ \E m \in out : Publish(m) \/ PublishFails(m)

Spec == Init /\ [][Next]_vars

\* The tasks are scheduled fairly, a dial comes to an end, a disconnect takes
\* effect, reconnecting is retried until it succeeds and the process is
\* restarted when it ends.  The Identify task gets its messages also when its
\* timer fires again and again.
Fairness ==
    /\ WF_vars(RequestDial) /\ WF_vars(RequestDone) /\ WF_vars(Reconnect)
    /\ WF_vars(MainReturns) /\ WF_vars(Restart)
    /\ \A n \in Service :
          /\ WF_vars(BootnodeDial(n)) /\ WF_vars(Notify(n))
          /\ WF_vars(\E a \in dialing[n] : SessionOpen(n, a) \/ DialerError(n, a))
    /\ \A l \in Contact :
          /\ WF_vars(ConnectedDiscovery(l)) /\ WF_vars(ReceivedDiscovery(l))
          /\ SF_vars(ReceivedIdentify(l))
          /\ WF_vars(session[l].state = "closing" /\ SessionClose(l))
    /\ WF_vars(\E m \in out : Publish(m))

FairSpec == Spec /\ Fairness

------------------------------------------------------------------------------
(* Properties *)

Message == [topic : {"peer/unknown"}, node : NodeMetaInfo]
           \cup [topic : {"peer/reachable"}, node : NodeMetaInfo, from : NodeMetaInfo]
           \cup [topic : {"peer/online"}, node : NodeMetaInfo, version : Version,
                 full : BOOLEAN]

SessionRecord ==
    [state : {"none", "open", "closing"}, addr : Multiaddr \cup {Null},
     getNodes : {"new", "asked", "failed"}, identify : Payload \cup {Null},
     nodes : NodesList \cup {Null}, greeted : BOOLEAN]

\* Every variable has its type, and a session is with the peer that its
\* address names.
TypeOK ==
    /\ up \in BOOLEAN /\ mqtt \in {"run", "lost", "ended"} /\ sub \in BOOLEAN
    /\ req \in [network : Networks, todo : SUBSET Multiaddr] \cup {Null}
    /\ service \in [Service -> {"run", "panicked", "ended"}]
    /\ boot \in [Service -> SUBSET Multiaddr]
    /\ dialing \in [Service -> SUBSET Multiaddr]
    /\ session \in [Contact -> SessionRecord]
    /\ \A l \in Contact : session[l].state # "none" => IdOf(session[l].addr) = l[2]
    /\ out \in SUBSET Message
    /\ asked \in SUBSET (Networks \X (PeerId \cup {NoId}))
    /\ faults \in Nat

\* The peers the dialer may speak to on each network.
Told == asked \cup UNION {{<<n, IdOf(a)>> : a \in get_bootnodes(n)} : n \in Service}

\* The README: the dialer does not dial the peers it hears of, only those it
\* is asked to dial, and bootnodes; and on no other network than asked.  It
\* never dials a loopback address, whatever the request says.
DialsOnlyAsked ==
    \A n \in Service : \A a \in dialing[n] :
        <<n, IdOf(a)>> \in Told /\ Found(a, "ip", Localhost) \notin Loopback

\* What is reported as online or unknown, or as the witness of another peer,
\* is a peer the dialer was told to dial, on that network: converting a
\* request into an address and the address of a session or of an error back
\* into a node does not change who it is.
SpeaksOfTold ==
    \A m \in out :
        LET who == IF m.topic = "peer/reachable" THEN m.from ELSE m.node
        IN  <<who.network, who.peer>> \in Told

\* The bootnodes of a network are dialed again and again, also without any
\* request (after a reconnect that has lost the subscription), unless the
\* service has ended or requests for Dev end the process again and again.
BootnodesRedialed ==
    \A n \in Service : get_bootnodes(n) # {} =>
        \/ []<>(\E a \in get_bootnodes(n) : a \in dialing[n])
        \/ <>[](service[n] = "ended")
        \/ []<>(~up)

\* A session ends once the peer has named a node, or has identified itself as
\* one that can name none, whatever its other messages are.
SessionEnds ==
    \A l \in Contact :
        /\ (session[l].nodes # Null /\ Named(session[l].nodes) # {})
               ~> (session[l].state # "open" \/ service[l[1]] # "run")
        /\ (session[l].identify # Null /\ ~Keeps(session[l].identify))
               ~> session[l].state # "open"

\* A panic of the MQTT task ends in a process that runs and has subscribed.
MqttPanicRecovered == mqtt = "ended" ~> (up /\ mqtt = "run" /\ sub)
==============================================================================
