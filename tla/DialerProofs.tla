----------------------------- MODULE DialerProofs -----------------------------
(***************************************************************************)
(* Proofs about Dialer and Addresses, for every set of peers, bootnodes,   *)
(* requests and messages, and any number of faults.                        *)
(***************************************************************************)
EXTENDS Dialer, TLAPS, WellFoundedInduction

(* What the parts of the inductive invariant say, from a request or a      *)
(* bootnode to the report about it.                                        *)

\* The bootnodes still to be dialed come from the table.
BootKnown == \A n \in Service : boot[n] \subseteq get_bootnodes(n)

\* A multiaddress that may be dialed: it names a peer that was asked for.
Dialable(n, a) == /\ <<n, IdOf(a)>> \in Told /\ IdOf(a) \in PeerId
                  /\ Found(a, "ip", Localhost) \notin Loopback

RequestTold == req # Null => \A a \in req.todo : Dialable(req.network, a)
DialsTold == \A n \in Service : \A a \in dialing[n] : Dialable(n, a)

\* A session is with a peer that was asked for, at a multiaddress.
SessionsTold ==
    \A l \in Contact : session[l].state # "none" =>
        l \in Told /\ session[l].addr \in Multiaddr

\* A node is reported on the network of a service, whoever the report is by.
NamesServed == \A m \in out : m.node.network \in Service

DialerInv == /\ TypeOK /\ BootKnown /\ RequestTold /\ DialsTold
             /\ SessionsTold /\ SpeaksOfTold /\ NamesServed

------------------------------------------------------------------------------
(* Multiaddresses *)

\* A nonempty set of positions has a last one.
LEMMA LastExists ==
    ASSUME NEW n \in Nat, NEW S, S \subseteq 1 .. n, S # {}
    PROVE  \E i \in S : \A j \in S : j <= i
<1> DEFINE T == {n - i : i \in S}
           R == {ss \in Nat \X Nat : ss[1] < ss[2]}
<1>1. \A i \in S : n - i \in Nat
  OBVIOUS
<1>2. T \subseteq Nat /\ T # {}
  BY <1>1
<1>3. IsWellFoundedOn(R, Nat)
  BY NatLessThanWellFounded DEF OpToRel
<1>4. \E x \in T : \A y \in T : ~ (<<y, x>> \in R)
  <2> HIDE DEF T, R
  <2> QED BY <1>2, <1>3, WFMin
<1>5. PICK i \in S : \A y \in T : ~ (<<y, n - i>> \in R)
  BY <1>4
<1>6. ASSUME NEW j \in S PROVE j <= i
  <2>1. n - j \in T /\ n - j \in Nat /\ n - i \in Nat
    BY <1>1
  <2>2. ~(n - j < n - i)
    BY <1>5, <2>1
  <2> QED BY <2>2
<1> QED BY <1>6

\* Found returns the default or what some protocol of the kind holds.
LEMMA FoundSome ==
    ASSUME NEW a \in Multiaddr, NEW kind, NEW default
    PROVE  \/ Found(a, kind, default) = default
           \/ \E i \in 1 .. Len(a) : /\ a[i] \in Protocol /\ a[i].is = kind
                                     /\ Found(a, kind, default) = a[i].v
<1> DEFINE at == {i \in DOMAIN a : a[i].is = kind}
<1>1. a \in Seq(Protocol) /\ DOMAIN a = 1 .. Len(a) /\ Len(a) \in Nat
  BY DEF Multiaddr
<1>2. CASE at = {}
  BY <1>2 DEF Found
<1>3. CASE at # {}
  <2> DEFINE last == CHOOSE i \in at : \A j \in at : j <= i
  <2>1. at \subseteq 1 .. Len(a)
    BY <1>1
  <2>2. last \in at
    <3>1. \E i \in at : \A j \in at : j <= i
      <4> HIDE DEF at
      <4> QED BY <1>1, <1>3, <2>1, LastExists
    <3> QED BY <3>1
  <2>3. Found(a, kind, default) = a[last].v
    BY <1>3 DEF Found
  <2>4. a[last] \in Protocol
    BY <1>1, <2>2
  <2> QED BY <2>1, <2>2, <2>3, <2>4
<1> QED BY <1>2, <1>3

\* The endpoint and the node of a multiaddress have their types.
LEMMA NodeType ==
    ASSUME NEW a \in Multiaddr, NEW n \in Networks
    PROVE  /\ addr_to_endpoint(a) \in EndpointInfo
           /\ addr_to_node_meta(a, n) \in NodeMetaInfo
<1>1. Found(a, "ip", Localhost) \in Ip
  BY FoundSome, AddressAssumption DEF Protocol
<1>2. Found(a, "tcp", NoPort) \in Port
  BY FoundSome, AddressAssumption DEF Protocol
<1>3. Found(a, "p2p", NoId) \in PeerId \cup {NoId}
  BY FoundSome DEF Protocol
<1>4. addr_to_endpoint(a) \in EndpointInfo
  BY <1>1, <1>2 DEF addr_to_endpoint, EndpointInfo
<1> QED BY <1>3, <1>4 DEF addr_to_node_meta, NodeMetaInfo

\* Formatting the address of a node and reading it back gives the node.
LEMMA FormatFacts ==
    ASSUME NEW e \in EndpointInfo, NEW id \in PeerId
    PROVE  /\ Format(e, id) \in Multiaddr
           /\ IdOf(Format(e, id)) = id
           /\ Found(Format(e, id), "ip", Localhost) = e.address
           /\ Found(Format(e, id), "tcp", NoPort) = e.port
<1> DEFINE a == Format(e, id)
<1>1. /\ DOMAIN a = 1 .. 3 /\ Len(a) = 3
      /\ a[1] = [is |-> "ip", v |-> e.address]
      /\ a[2] = [is |-> "tcp", v |-> e.port]
      /\ a[3] = [is |-> "p2p", v |-> id]
  BY DEF Format
<1>2. a[1] \in Protocol /\ a[2] \in Protocol /\ a[3] \in Protocol
  BY <1>1 DEF Protocol, EndpointInfo
<1>3. a \in Multiaddr
  BY <1>2 DEF Multiaddr, Format
<1>4. \A i \in 1 .. Len(a) : i = 1 \/ i = 2 \/ i = 3
  BY <1>1
<1> HIDE DEF a
<1>5. a[1].is = "ip" /\ a[2].is = "tcp" /\ a[3].is = "p2p"
      /\ a[1].v = e.address /\ a[2].v = e.port /\ a[3].v = id
  BY <1>1
<1>6. IdOf(a) = id
  <2>1. {i \in DOMAIN a : a[i].is = "p2p"} = {3}
    BY <1>1, <1>4, <1>5
  <2>2. (CHOOSE i \in {3} : \A j \in {3} : j <= i) = 3
    OBVIOUS
  <2> QED BY <1>5, <2>1, <2>2 DEF IdOf, Found
<1>7. Found(a, "ip", Localhost) = e.address
  <2>1. {i \in DOMAIN a : a[i].is = "ip"} = {1}
    BY <1>1, <1>4, <1>5
  <2>2. (CHOOSE i \in {1} : \A j \in {1} : j <= i) = 1
    OBVIOUS
  <2> QED BY <1>5, <2>1, <2>2 DEF Found
<1>8. Found(a, "tcp", NoPort) = e.port
  <2>1. {i \in DOMAIN a : a[i].is = "tcp"} = {2}
    BY <1>1, <1>4, <1>5
  <2>2. (CHOOSE i \in {2} : \A j \in {2} : j <= i) = 2
    OBVIOUS
  <2> QED BY <1>5, <2>1, <2>2 DEF Found
<1> QED BY <1>3, <1>6, <1>7, <1>8 DEF a

\* The addresses that a request is turned into lead back to its node: to the
\* same peer, at endpoints of the request that are no loopback addresses.
THEOREM RequestRoundTrip ==
    ASSUME NEW r \in NodeMetaInfo, NEW a \in meta_info_to_addr(r)
    PROVE  /\ a \in Multiaddr /\ r.peer \in PeerId
           /\ addr_to_node_meta(a, r.network).peer = r.peer
           /\ addr_to_endpoint(a) \in r.addrs
           /\ Found(a, "ip", Localhost) \notin Loopback
<1>1. r.peer # NoId /\ r.peer \in PeerId /\ r.addrs \subseteq EndpointInfo
  BY DEF meta_info_to_addr, NodeMetaInfo
<1>2. PICK e \in r.addrs : ~IsLoopback(e) /\ a = Format(e, r.peer)
  BY <1>1 DEF meta_info_to_addr
<1>3. e \in EndpointInfo
  BY <1>1
<1>4. /\ a \in Multiaddr /\ IdOf(a) = r.peer
      /\ Found(a, "ip", Localhost) = e.address /\ Found(a, "tcp", NoPort) = e.port
  BY <1>1, <1>2, <1>3, FormatFacts
<1>5. addr_to_endpoint(a) = e
  BY <1>3, <1>4 DEF addr_to_endpoint, EndpointInfo
<1> QED
  BY <1>1, <1>2, <1>4, <1>5 DEF addr_to_node_meta, IdOf, IsLoopback

------------------------------------------------------------------------------
(* The invariant *)

\* What was asked for is never forgotten.
LEMMA ToldGrows == asked \subseteq asked' => Told \subseteq Told'
BY DEF Told

LEMMA ServiceNetworks == Service \subseteq Networks
BY DEF Service, Networks

\* The bootnodes of the table may be dialed.
LEMMA BootDialable ==
    ASSUME NEW n \in Service, NEW a \in get_bootnodes(n)
    PROVE  a \in Multiaddr /\ Dialable(n, a)
<1>1. <<n, IdOf(a)>> \in Told
  BY DEF Told
<1> QED BY <1>1, DialerAssumption DEF get_bootnodes, Dialable, IdOf

LEMMA InitInv == Init => DialerInv
<1> SUFFICES ASSUME Init PROVE DialerInv
  OBVIOUS
<1>1. NoSession \in SessionRecord
  BY DEF NoSession, SessionRecord
<1>2. boot \in [Service -> SUBSET Multiaddr]
  BY DialerAssumption DEF Init, get_bootnodes
<1>3. up \in BOOLEAN /\ sub \in BOOLEAN
  BY DEF Init
<1>4. TypeOK
  BY <1>1, <1>2, <1>3 DEF Init, TypeOK, NoSession
<1> QED
  BY <1>4 DEF Init, DialerInv, BootKnown, RequestTold, DialsTold, SessionsTold,
      SpeaksOfTold, NamesServed, NoSession

\* A request arrives.
LEMMA ReceiveInv ==
    ASSUME DialerInv, NEW r \in NodeMetaInfo, Receive(r)
    PROVE  DialerInv'
<1> USE DEF DialerInv
<1>1. /\ req' = [network |-> r.network, todo |-> meta_info_to_addr(r)]
      /\ asked' = asked \cup {<<r.network, r.peer>>}
      /\ UNCHANGED <<up, mqtt, sub, service, boot, dialing, session, out, faults>>
  BY DEF Receive, p2p
<1>2. r.network \in Networks /\ r.peer \in PeerId \cup {NoId}
  BY DEF NodeMetaInfo
<1>3. Told \subseteq Told' /\ <<r.network, r.peer>> \in Told'
  BY <1>1, ToldGrows DEF Told
<1>4. \A a \in meta_info_to_addr(r) : a \in Multiaddr /\ Dialable(r.network, a)'
  BY <1>3, RequestRoundTrip DEF Dialable, addr_to_node_meta, IdOf
<1>5. TypeOK'
  <2>1. req' \in [network : Networks, todo : SUBSET Multiaddr]
    BY <1>1, <1>2, <1>4
  <2>2. asked' \in SUBSET (Networks \X (PeerId \cup {NoId}))
    BY <1>1, <1>2 DEF TypeOK
  <2> QED BY <1>1, <2>1, <2>2 DEF TypeOK
<1>6. RequestTold'
  BY <1>1, <1>4 DEF RequestTold
<1>7. DialsTold' /\ SessionsTold' /\ SpeaksOfTold' /\ NamesServed' /\ BootKnown'
  BY <1>1, <1>3 DEF DialsTold, Dialable, SessionsTold, SpeaksOfTold,
      NamesServed, BootKnown
<1> QED BY <1>5, <1>6, <1>7

\* The process starts over with nothing in hand.
LEMMA StopInv ==
    ASSUME DialerInv, Stop, faults' \in Nat
    PROVE  DialerInv'
<1> USE DEF DialerInv
<1>1. NoSession \in SessionRecord /\ NoSession.state = "none"
  BY DEF NoSession, SessionRecord
<1>2. up' \in BOOLEAN /\ sub' \in BOOLEAN
  BY DEF Stop
<1>3. TypeOK'
  BY <1>1, <1>2 DEF Stop, TypeOK
<1> QED
  BY <1>1, <1>3 DEF Stop, BootKnown, RequestTold, DialsTold, SessionsTold,
      SpeaksOfTold, NamesServed

\* A fault is counted.
LEMMA FaultType == TypeOK /\ Fault => faults' \in Nat
BY DEF TypeOK, Fault

LEMMA ProcessInv ==
    ASSUME DialerInv, ProcessStep
    PROVE  DialerInv'
<1> USE DEF DialerInv
<1>1. CASE RequestDial
  <2>1. PICK a \in req.todo :
          IF req.network \in Service
          THEN /\ req' = [req EXCEPT !.todo = @ \ {a}]
               /\ dialing' = IF service[req.network] = "ended" THEN dialing
                             ELSE [dialing EXCEPT ![req.network] = @ \cup {a}]
               /\ UNCHANGED mqtt
          ELSE mqtt' = "ended" /\ req' = Null /\ UNCHANGED dialing
    BY <1>1 DEF RequestDial
  <2>2. /\ req # Null /\ UNCHANGED <<up, sub, asked, service, boot, session, out, faults>>
    BY <1>1 DEF RequestDial
  <2>3. req \in [network : Networks, todo : SUBSET Multiaddr]
    BY <2>2 DEF TypeOK
  <2>4. a \in Multiaddr /\ Dialable(req.network, a)
    BY <2>2, <2>3 DEF RequestTold
  <2>5. Told' = Told /\ SpeaksOfTold' /\ NamesServed' /\ SessionsTold' /\ BootKnown'
    BY <2>2 DEF Told, SpeaksOfTold, NamesServed, SessionsTold, BootKnown
  <2>6. CASE req.network \in Service
    <3>1. /\ req' = [network |-> req.network, todo |-> req.todo \ {a}]
          /\ mqtt' = mqtt
      BY <2>1, <2>3, <2>6
    <3>2. /\ dialing' \in [Service -> SUBSET Multiaddr]
          /\ \A n \in Service : \A b \in dialing'[n] :
                b \in dialing[n] \/ (n = req.network /\ b = a)
      BY <2>1, <2>4, <2>6 DEF TypeOK
    <3>3. TypeOK'
      BY <2>2, <2>3, <3>1, <3>2 DEF TypeOK
    <3>4. RequestTold'
      BY <2>2, <2>5, <3>1 DEF RequestTold, Dialable
    <3>5. DialsTold'
      BY <2>4, <2>5, <3>2 DEF DialsTold, Dialable
    <3> QED BY <2>5, <3>3, <3>4, <3>5
  <2>7. CASE req.network \notin Service
    <3>1. mqtt' = "ended" /\ req' = Null /\ dialing' = dialing
      BY <2>1, <2>7
    <3>2. TypeOK'
      BY <2>2, <3>1 DEF TypeOK
    <3> QED
      BY <2>5, <3>1, <3>2 DEF RequestTold, DialsTold, Dialable
  <2> QED BY <2>6, <2>7
<1>2. CASE RequestDone \/ ConnectionLost \/ Reconnect \/ StreamEnds
  <2>1. /\ req' = Null \/ req' = req
        /\ mqtt' \in {"run", "lost", "ended"} /\ sub' \in BOOLEAN
        /\ faults' \in Nat
        /\ UNCHANGED <<up, asked, service, boot, dialing, session, out>>
    BY <1>2, FaultType DEF RequestDone, ConnectionLost, Reconnect, StreamEnds,
        TypeOK, p2p
  <2>2. Told' = Told
    BY <2>1 DEF Told
  <2>3. TypeOK'
    BY <2>1 DEF TypeOK
  <2> QED
    BY <2>1, <2>2, <2>3 DEF BootKnown, RequestTold, DialsTold, Dialable,
        SessionsTold, SpeaksOfTold, NamesServed
<1>3. CASE MainReturns \/ Crash
  <2>1. Stop /\ faults' \in Nat
    BY <1>3, FaultType DEF MainReturns, Crash, TypeOK
  <2> QED BY <2>1, StopInv
<1>4. CASE Restart
  <2>1. /\ up' \in BOOLEAN /\ sub' \in BOOLEAN
    BY <1>4 DEF Restart
  <2>2. /\ mqtt' = "run" /\ service' = [n \in Service |-> "run"]
        /\ boot' = [n \in Service |-> get_bootnodes(n)]
        /\ UNCHANGED <<req, asked, dialing, session, out, faults>>
    BY <1>4 DEF Restart
  <2>3. boot' \in [Service -> SUBSET Multiaddr]
    BY <2>2, BootDialable
  <2>4. Told' = Told
    BY <2>2 DEF Told
  <2>5. TypeOK'
    BY <2>1, <2>2, <2>3 DEF TypeOK
  <2> QED
    BY <2>2, <2>4, <2>5 DEF BootKnown, RequestTold, DialsTold, Dialable,
        SessionsTold, SpeaksOfTold, NamesServed
<1> QED BY <1>1, <1>2, <1>3, <1>4 DEF ProcessStep

LEMMA ServiceInv ==
    ASSUME DialerInv, NEW n \in Service, ServiceStep(n)
    PROVE  DialerInv'
<1> USE DEF DialerInv
<1>1. n \in Networks
  BY ServiceNetworks
<1>2. CASE BootnodeDial(n)
  <2>1. PICK a \in boot[n] : /\ boot' = [boot EXCEPT ![n] = @ \ {a}]
                             /\ dialing' = [dialing EXCEPT ![n] = @ \cup {a}]
    BY <1>2 DEF BootnodeDial
  <2>2. UNCHANGED <<up, mqtt, sub, req, asked, service, session, out, faults>>
    BY <1>2 DEF BootnodeDial, process
  <2>3. a \in Multiaddr /\ Dialable(n, a)
    BY BootDialable DEF BootKnown
  <2>4. /\ boot' \in [Service -> SUBSET Multiaddr]
        /\ dialing' \in [Service -> SUBSET Multiaddr]
        /\ \A s \in Service : boot'[s] \subseteq boot[s]
        /\ \A s \in Service : \A b \in dialing'[s] :
              b \in dialing[s] \/ (s = n /\ b = a)
    BY <2>1, <2>3 DEF TypeOK
  <2>5. Told' = Told
    BY <2>2 DEF Told
  <2>6. TypeOK'
    BY <2>2, <2>4 DEF TypeOK
  <2>7. BootKnown'
    BY <2>4 DEF BootKnown
  <2>8. DialsTold'
    BY <2>3, <2>4, <2>5 DEF DialsTold, Dialable
  <2> QED
    BY <2>2, <2>5, <2>6, <2>7, <2>8 DEF RequestTold, Dialable, SessionsTold,
        SpeaksOfTold, NamesServed
<1>3. CASE Notify(n)
  <2>1. /\ boot' = [boot EXCEPT ![n] = get_bootnodes(n)]
        /\ UNCHANGED <<up, mqtt, sub, req, asked, service, dialing, session, out, faults>>
    BY <1>3 DEF Notify, process
  <2>2. boot' \in [Service -> SUBSET Multiaddr] /\ BootKnown'
    BY <2>1, BootDialable DEF TypeOK, BootKnown
  <2>3. Told' = Told
    BY <2>1 DEF Told
  <2>4. TypeOK'
    BY <2>1, <2>2 DEF TypeOK
  <2> QED
    BY <2>1, <2>2, <2>3, <2>4 DEF RequestTold, DialsTold, Dialable, SessionsTold,
        SpeaksOfTold, NamesServed
<1>4. ASSUME NEW a \in dialing[n], SessionOpen(n, a) PROVE DialerInv'
  <2> DEFINE l == <<n, IdOf(a)>>
  <2>1. /\ dialing' = [dialing EXCEPT ![n] = @ \ {a}]
        /\ session' = [session EXCEPT ![l].state = "open", ![l].addr = a]
        /\ UNCHANGED <<up, mqtt, sub, req, asked, service, boot, out, faults>>
    BY <1>4 DEF SessionOpen, process
  <2>2. a \in Multiaddr /\ Dialable(n, a)
    BY DEF DialsTold, TypeOK
  <2>3. l \in Contact /\ l[2] = IdOf(a) /\ l \in Told
    BY <2>2 DEF Dialable, Contact
  <2> HIDE DEF l
  <2>4. session' = [session EXCEPT ![l] = [session[l] EXCEPT !.state = "open", !.addr = a]]
    BY <2>1, <2>3 DEF TypeOK
  <2>5. [session[l] EXCEPT !.state = "open", !.addr = a] \in SessionRecord
    <3>1. session[l] \in SessionRecord
      BY <2>3 DEF TypeOK
    <3> HIDE DEF DialerInv
    <3> QED BY <2>2, <3>1 DEF SessionRecord
  <2>6. /\ session' \in [Contact -> SessionRecord]
        /\ session'[l].addr = a
        /\ \A k \in Contact : k # l => session'[k] = session[k]
    BY <2>3, <2>4, <2>5 DEF TypeOK, SessionRecord
  <2>7. /\ dialing' \in [Service -> SUBSET Multiaddr]
        /\ \A s \in Service : dialing'[s] \subseteq dialing[s]
    BY <2>1 DEF TypeOK
  <2>8. Told' = Told
    BY <2>1 DEF Told
  <2>9. TypeOK'
    <3>1. \A k \in Contact : session'[k].state # "none" => IdOf(session'[k].addr) = k[2]
      BY <2>3, <2>6 DEF TypeOK
    <3> QED BY <2>1, <2>6, <2>7, <3>1 DEF TypeOK
  <2>10. SessionsTold'
    BY <2>2, <2>3, <2>6, <2>8 DEF SessionsTold
  <2>11. DialsTold'
    BY <2>7, <2>8 DEF DialsTold, Dialable
  <2> QED
    BY <2>1, <2>8, <2>9, <2>10, <2>11 DEF BootKnown, RequestTold, Dialable,
        SpeaksOfTold, NamesServed
<1>5. ASSUME NEW a \in dialing[n], DialerError(n, a) PROVE DialerInv'
  <2>1. /\ dialing' = [dialing EXCEPT ![n] = @ \ {a}]
        /\ out' = out \cup {UnknownReport(n, a)}
        /\ UNCHANGED <<up, mqtt, sub, req, asked, service, boot, session, faults>>
    BY <1>5 DEF DialerError, process
  <2>2. a \in Multiaddr /\ Dialable(n, a)
    BY DEF DialsTold, TypeOK
  <2>3. /\ UnknownReport(n, a) \in Message
        /\ UnknownReport(n, a).topic = "peer/unknown"
        /\ UnknownReport(n, a).node.network = n
        /\ UnknownReport(n, a).node.peer = IdOf(a)
    BY <1>1, <2>2, NodeType DEF UnknownReport, Message, addr_to_node_meta, IdOf
  <2>4. Told' = Told
    BY <2>1 DEF Told
  <2>5. /\ dialing' \in [Service -> SUBSET Multiaddr]
        /\ \A s \in Service : dialing'[s] \subseteq dialing[s]
    BY <2>1 DEF TypeOK
  <2>6. out' \in SUBSET Message
    BY <2>1, <2>3 DEF TypeOK
  <2>7. TypeOK'
    BY <2>1, <2>5, <2>6 DEF TypeOK
  <2>8. SpeaksOfTold' /\ NamesServed'
    BY <2>1, <2>2, <2>3, <2>4 DEF SpeaksOfTold, NamesServed, Dialable
  <2>9. DialsTold'
    BY <2>4, <2>5 DEF DialsTold, Dialable
  <2> QED
    BY <2>1, <2>4, <2>7, <2>8, <2>9 DEF BootKnown, RequestTold, Dialable,
        SessionsTold
<1>6. CASE ServiceEnds(n)
  <2>1. /\ service' = [service EXCEPT ![n] = "ended"]
        /\ boot' = [boot EXCEPT ![n] = {}] /\ dialing' = [dialing EXCEPT ![n] = {}]
        /\ session' = [l \in Contact |-> IF l[1] = n THEN NoSession ELSE session[l]]
        /\ UNCHANGED <<up, mqtt, sub, req, asked, out, faults>>
    BY <1>6 DEF ServiceEnds, process
  <2>2. NoSession \in SessionRecord /\ NoSession.state = "none"
    BY DEF NoSession, SessionRecord
  <2>3. Told' = Told
    BY <2>1 DEF Told
  <2>4. /\ boot' \in [Service -> SUBSET Multiaddr]
        /\ dialing' \in [Service -> SUBSET Multiaddr]
        /\ \A s \in Service : boot'[s] \subseteq boot[s] /\ dialing'[s] \subseteq dialing[s]
        /\ service' \in [Service -> {"run", "panicked", "ended"}]
    BY <2>1 DEF TypeOK
  <2>5. /\ session' \in [Contact -> SessionRecord]
        /\ \A l \in Contact : session'[l].state # "none" => session'[l] = session[l]
    BY <2>1, <2>2 DEF TypeOK
  <2>6. TypeOK'
    BY <2>1, <2>4, <2>5 DEF TypeOK
  <2>7. SessionsTold'
    BY <2>3, <2>5 DEF SessionsTold
  <2>8. BootKnown' /\ DialsTold'
    BY <2>3, <2>4 DEF BootKnown, DialsTold, Dialable
  <2> QED
    BY <2>1, <2>3, <2>6, <2>7, <2>8 DEF RequestTold, Dialable, SpeaksOfTold,
        NamesServed
<1> QED BY <1>2, <1>3, <1>4, <1>5, <1>6 DEF ServiceStep

\* A session goes on with the same peer, or ends, whatever else it learns.
LEMMA SessionChange ==
    ASSUME DialerInv, NEW l \in Contact, NEW s \in SessionRecord,
           s.state # "none" => session[l].state # "none" /\ s.addr = session[l].addr,
           session' = [session EXCEPT ![l] = s],
           service' \in [Service -> {"run", "panicked", "ended"}],
           out' \in SUBSET Message, SpeaksOfTold' /\ NamesServed',
           UNCHANGED <<process, boot, dialing, faults>>
    PROVE  DialerInv'
<1> USE DEF DialerInv
<1>1. UNCHANGED <<up, mqtt, sub, req, asked, boot, dialing, faults>>
  BY DEF process
<1>2. Told' = Told
  BY <1>1 DEF Told
<1>3. session' \in [Contact -> SessionRecord]
  BY DEF TypeOK
<1>4. \A k \in Contact : session'[k].state # "none" =>
         session[k].state # "none" /\ session'[k].addr = session[k].addr
  BY DEF TypeOK
<1>5. TypeOK'
  BY <1>1, <1>3, <1>4 DEF TypeOK
<1>6. SessionsTold'
  BY <1>2, <1>4 DEF SessionsTold
<1> QED
  BY <1>1, <1>2, <1>5, <1>6 DEF BootKnown, RequestTold, DialsTold, Dialable

\* A session with a peer that is told of gives a node that is told of.
LEMMA SessionNode ==
    ASSUME DialerInv, NEW l \in Contact, session[l].state # "none"
    PROVE  /\ addr_to_node_meta(session[l].addr, l[1]) \in NodeMetaInfo
           /\ addr_to_node_meta(session[l].addr, l[1]).network = l[1]
           /\ addr_to_node_meta(session[l].addr, l[1]).peer = l[2]
           /\ l \in Told /\ l = <<l[1], l[2]>> /\ l[1] \in Networks \cap Service
<1>1. l[1] \in Networks \cap Service /\ l = <<l[1], l[2]>>
  BY ServiceNetworks DEF Contact
<1>2. /\ session[l].addr \in Multiaddr /\ l \in Told
      /\ IdOf(session[l].addr) = l[2]
  BY DEF DialerInv, SessionsTold, TypeOK
<1> QED BY <1>1, <1>2, NodeType DEF addr_to_node_meta, IdOf

\* The nodes that a message names have well-formed addresses, and the report
\* about one of them names its witness.
LEMMA NamedReport ==
    ASSUME DialerInv, NEW l \in Contact, session[l].state # "none",
           NEW items \in NodesList, NEW item \in Named(items)
    PROVE  /\ ReachableReport(l, item) \in Message
           /\ ReachableReport(l, item).topic = "peer/reachable"
           /\ ReachableReport(l, item).node.network \in Service
           /\ ReachableReport(l, item).from.network = l[1]
           /\ ReachableReport(l, item).from.peer = l[2]
<1>1. items \in Seq(Seq(Multiaddr \cup {Malformed}))
  BY DialerAssumption
<1>2. PICK j \in DOMAIN items : /\ item = items[j] /\ item # <<>>
                                /\ \A k \in 1 .. j : ~IsBad(items[k])
  BY DEF Named
<1>3. j \in 1 .. Len(items) /\ j \in 1 .. j
  BY <1>1
<1>4. item \in Seq(Multiaddr \cup {Malformed}) /\ ~IsBad(item)
  BY <1>1, <1>2, <1>3
<1>5. 1 \in DOMAIN item
  BY <1>2, <1>4
<1>6. \A i \in DOMAIN item : item[i] \in Multiaddr
  BY <1>4 DEF IsBad
<1>7. l[1] \in Networks \cap Service
  BY SessionNode
<1> DEFINE meta == addr_to_node_meta(item[1], l[1])
           all == meta.addrs \cup {addr_to_endpoint(item[i]) : i \in DOMAIN item}
           kept == {e \in all : ~IsLoopback(e)}
           from == addr_to_node_meta(session[l].addr, l[1])
<1>8. meta \in NodeMetaInfo /\ meta.network \in Service
  BY <1>5, <1>6, <1>7, NodeType DEF addr_to_node_meta
<1>9. \A i \in DOMAIN item : addr_to_endpoint(item[i]) \in EndpointInfo
  BY <1>6, <1>7, NodeType
<1>10. kept \subseteq EndpointInfo
  BY <1>8, <1>9 DEF NodeMetaInfo
<1>11. from \in NodeMetaInfo /\ from.network = l[1] /\ from.peer = l[2]
  BY SessionNode
<1> DEFINE node == [meta EXCEPT !.addrs = kept]
<1>12. ReachableReport(l, item) = [topic |-> "peer/reachable", node |-> node,
                                   from |-> from]
  BY DEF ReachableReport
<1> HIDE DEF meta, all, kept, from
<1>13. node \in NodeMetaInfo /\ node.network \in Service
  BY <1>8, <1>10 DEF NodeMetaInfo
<1> HIDE DEF node
<1> QED BY <1>11, <1>12, <1>13 DEF Message

LEMMA SessionInv ==
    ASSUME DialerInv, NEW l \in Contact, SessionStep(l)
    PROVE  DialerInv'
<1> DEFINE old == session[l]
           closed == [old EXCEPT !.state = IF @ = "open" THEN "closing" ELSE @]
<1>1. /\ session \in [Contact -> SessionRecord] /\ old \in SessionRecord
      /\ service \in [Service -> {"run", "panicked", "ended"}]
      /\ out \in SUBSET Message /\ SpeaksOfTold /\ NamesServed
  BY DEF DialerInv, TypeOK
<1>2. disconnect(l) = [session EXCEPT ![l] = closed]
  BY <1>1 DEF disconnect
<1>3. /\ closed \in SessionRecord /\ closed.addr = old.addr
      /\ closed.state # "none" <=> old.state # "none"
  BY <1>1 DEF SessionRecord
<1> HIDE DEF closed
\* A step that says nothing.
<1>4. ASSUME NEW s \in SessionRecord, session' = [session EXCEPT ![l] = s],
             s.state # "none" => old.state # "none" /\ s.addr = old.addr,
             UNCHANGED <<process, service, boot, dialing, out, faults>>
      PROVE  DialerInv'
  <2>1. SpeaksOfTold' /\ NamesServed'
    BY <1>1, <1>4 DEF SpeaksOfTold, NamesServed, Told, process
  <2> QED BY <1>1, <1>4, <2>1, SessionChange
<1>5. CASE ConnectedDiscovery(l)
  <2>1. PICK r \in {"asked", "failed"} : session' = [session EXCEPT ![l].getNodes = r]
    BY <1>5 DEF ConnectedDiscovery
  <2> DEFINE s == [old EXCEPT !.getNodes = r]
  <2>2. s \in SessionRecord /\ s.state = old.state /\ s.addr = old.addr
    BY <1>1 DEF SessionRecord
  <2>3. session' = [session EXCEPT ![l] = s]
    BY <1>1, <2>1
  <2>4. UNCHANGED <<process, service, boot, dialing, out, faults>>
    BY <1>5 DEF ConnectedDiscovery
  <2> HIDE DEF s
  <2> QED BY <1>4, <1>5, <2>2, <2>3, <2>4
<1>6. ASSUME NEW m \in Payload, PeerIdentifies(l, m) PROVE DialerInv'
  <2> DEFINE s == [old EXCEPT !.identify = m]
  <2>1. s \in SessionRecord /\ s.state = old.state /\ s.addr = old.addr
    BY <1>1 DEF SessionRecord
  <2>2. /\ session' = [session EXCEPT ![l] = s]
        /\ UNCHANGED <<process, service, boot, dialing, out, faults>>
    BY <1>1, <1>6 DEF PeerIdentifies
  <2> HIDE DEF s
  <2> QED BY <1>4, <2>1, <2>2
<1>7. ASSUME NEW m \in NodesList, PeerAnswers(l, m) PROVE DialerInv'
  <2> DEFINE s == [old EXCEPT !.nodes = m]
  <2>1. s \in SessionRecord /\ s.state = old.state /\ s.addr = old.addr
    BY <1>1 DEF SessionRecord
  <2>2. /\ session' = [session EXCEPT ![l] = s]
        /\ UNCHANGED <<process, service, boot, dialing, out, faults>>
    BY <1>1, <1>7 DEF PeerAnswers
  <2> HIDE DEF s
  <2> QED BY <1>4, <2>1, <2>2
<1>8. CASE ReceivedIdentify(l)
  <2> DEFINE m == old.identify
             s == IF Keeps(m) THEN old ELSE closed
             t == [s EXCEPT !.identify = Null, !.greeted = @ \/ m # Malformed]
  <2>1. /\ old.state # "none" /\ m # Null
        /\ out' = IF m = Malformed THEN out ELSE out \cup {OnlineReport(l, m)}
        /\ UNCHANGED <<process, service, boot, dialing, faults>>
    BY <1>8 DEF ReceivedIdentify
  <2>2. s \in SessionRecord /\ s.addr = old.addr
    BY <1>1, <1>3
  <2>3. session' = [session EXCEPT ![l] = t]
    BY <1>1, <1>2, <1>8 DEF ReceivedIdentify
  <2>4. t \in SessionRecord /\ t.addr = old.addr
    <3> HIDE DEF s
    <3>1. (s.greeted \/ m # Malformed) \in BOOLEAN
      OBVIOUS
    <3> QED BY <2>2, <3>1 DEF SessionRecord
  <2>5. m # Malformed => m \in IdentifyPayload
    BY <1>1, <2>1, DialerAssumption DEF SessionRecord
  <2>6. m # Malformed => /\ OnlineReport(l, m) \in Message
                         /\ OnlineReport(l, m).topic = "peer/online"
                         /\ OnlineReport(l, m).node.network = l[1]
                         /\ OnlineReport(l, m).node.peer = l[2]
    <3>1. IsFull(m.flag) \in BOOLEAN
      BY DEF IsFull
    <3> HIDE DEF m
    <3> QED BY <2>1, <2>5, <3>1, SessionNode DEF OnlineReport, Message, IdentifyPayload
  <2>7. Told' = Told
    BY <2>1 DEF Told, process
  <2>8. out' \in SUBSET Message /\ SpeaksOfTold' /\ NamesServed'
    <3>1. l \in Told /\ l = <<l[1], l[2]>> /\ l[1] \in Service
      BY <2>1, SessionNode
    <3> HIDE DEF m
    <3> QED BY <1>1, <2>1, <2>6, <2>7, <3>1 DEF SpeaksOfTold, NamesServed
  <2> HIDE DEF m, t
  <2> QED BY <1>1, <2>1, <2>3, <2>4, <2>8, SessionChange
<1>9. CASE ReceivedDiscovery(l)
  <2> DEFINE items == old.nodes
             s == IF Named(items) = {} THEN old ELSE closed
             t == [s EXCEPT !.nodes = Null]
  <2>1. /\ old.state # "none" /\ items # Null
        /\ out' = out \cup {ReachableReport(l, i) : i \in Named(items)}
        /\ UNCHANGED <<process, boot, dialing, faults>>
    BY <1>9 DEF ReceivedDiscovery
  <2>2. service' \in [Service -> {"run", "panicked", "ended"}]
    BY <1>1, <1>9 DEF ReceivedDiscovery
  <2>3. s \in SessionRecord /\ s.addr = old.addr
    BY <1>1, <1>3
  <2>4. session' = [session EXCEPT ![l] = t]
    BY <1>1, <1>2, <1>9 DEF ReceivedDiscovery
  <2>5. t \in SessionRecord /\ t.addr = old.addr
    <3> HIDE DEF s
    <3> QED BY <2>3 DEF SessionRecord
  <2>6. items \in NodesList
    BY <1>1, <2>1 DEF SessionRecord
  <2>7. Told' = Told
    BY <2>1 DEF Told, process
  <2>8. out' \in SUBSET Message /\ SpeaksOfTold' /\ NamesServed'
    <3>1. l \in Told /\ l = <<l[1], l[2]>> /\ l[1] \in Service
      BY <2>1, SessionNode
    <3> HIDE DEF items
    <3>2. \A i \in Named(items) :
            /\ ReachableReport(l, i) \in Message
            /\ ReachableReport(l, i).topic = "peer/reachable"
            /\ ReachableReport(l, i).node.network \in Service
            /\ ReachableReport(l, i).from.network = l[1]
            /\ ReachableReport(l, i).from.peer = l[2]
      BY <2>1, <2>6, NamedReport
    <3> QED BY <1>1, <2>1, <2>7, <3>1, <3>2 DEF SpeaksOfTold, NamesServed
  <2> HIDE DEF t
  <2> QED BY <2>1, <2>2, <2>4, <2>5, <2>8, SessionChange
<1>10. CASE ProtocolSelectError(l)
  BY <1>2, <1>3, <1>4, <1>10 DEF ProtocolSelectError
<1>11. CASE SessionClose(l)
  <2>1. NoSession \in SessionRecord /\ NoSession.state = "none"
    BY DEF NoSession, SessionRecord
  <2> QED BY <1>4, <1>11, <2>1 DEF SessionClose
<1> QED
  BY <1>5, <1>6, <1>7, <1>8, <1>9, <1>10, <1>11 DEF SessionStep

\* A report is published, or lost.
LEMMA PublishInv ==
    ASSUME DialerInv, NEW m \in out, Publish(m) \/ PublishFails(m)
    PROVE  DialerInv'
<1> USE DEF DialerInv
<1>1. /\ out' \subseteq out /\ faults' \in Nat
      /\ UNCHANGED <<up, mqtt, sub, req, asked, service, boot, dialing, session>>
  BY FaultType DEF Publish, PublishFails, process, p2p, TypeOK
<1>2. Told' = Told
  BY <1>1 DEF Told
<1>3. TypeOK'
  BY <1>1 DEF TypeOK
<1> QED
  BY <1>1, <1>2, <1>3 DEF BootKnown, RequestTold, DialsTold, Dialable,
      SessionsTold, SpeaksOfTold, NamesServed

\* A fault of the environment is counted.
LEMMA FaultInv ==
    ASSUME DialerInv, Fault, UNCHANGED <<process, p2p, out>>
    PROVE  DialerInv'
<1> USE DEF DialerInv
<1>1. /\ faults' \in Nat
      /\ UNCHANGED <<up, mqtt, sub, req, asked, service, boot, dialing, session, out>>
  BY FaultType DEF process, p2p
<1>2. Told' = Told
  BY <1>1 DEF Told
<1>3. TypeOK'
  BY <1>1 DEF TypeOK
<1> QED
  BY <1>1, <1>2, <1>3 DEF BootKnown, RequestTold, DialsTold, Dialable,
      SessionsTold, SpeaksOfTold, NamesServed

\* The dialer rests.
LEMMA RestInv ==
    ASSUME DialerInv, UNCHANGED vars
    PROVE  DialerInv'
<1>1. Told' = Told
  BY DEF vars, process, Told
<1> QED
  BY <1>1 DEF vars, process, p2p, DialerInv, TypeOK, BootKnown, RequestTold,
      DialsTold, Dialable, SessionsTold, SpeaksOfTold, NamesServed

LEMMA NextInv == DialerInv /\ [Next]_vars => DialerInv'
<1> SUFFICES ASSUME DialerInv, [Next]_vars PROVE DialerInv'
  OBVIOUS
<1>1. ASSUME NEW r \in Request, Receive(r) PROVE DialerInv'
  BY <1>1, ReceiveInv, DialerAssumption
<1> QED
  BY <1>1, RestInv, ProcessInv, ServiceInv, SessionInv, PublishInv DEF Next

------------------------------------------------------------------------------

\* Every variable of the dialer has its type in every reachable state; what it
\* publishes are well-formed reports, whatever peers send.
THEOREM TypeCorrect == Spec => []TypeOK
<1>1. DialerInv => TypeOK
  BY DEF DialerInv
<1> QED BY <1>1, InitInv, NextInv, PTL DEF Spec

\* The dialer dials only bootnodes and peers it was asked to dial, on the
\* network it was asked for, and no loopback address.
THEOREM OnlyAskedDialed == Spec => []DialsOnlyAsked
<1>1. DialerInv => DialsOnlyAsked
  BY DEF DialerInv, DialsTold, Dialable, DialsOnlyAsked
<1> QED BY <1>1, InitInv, NextInv, PTL DEF Spec

\* Reports are by and about peers that the dialer was told to dial.
THEOREM OnlyToldReported == Spec => []SpeaksOfTold
<1>1. DialerInv => SpeaksOfTold
  BY DEF DialerInv
<1> QED BY <1>1, InitInv, NextInv, PTL DEF Spec
==============================================================================
