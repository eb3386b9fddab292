-------------------------------- MODULE Marci --------------------------------
(***************************************************************************)
(* marci/src/main.rs: the control centre.  Reports about peers come in     *)
(* over MQTT, pass through three bounded channels and are applied to Redis *)
(* by one task, which also broadcasts on a timer the peers to be dialed.   *)
(*                                                                         *)
(* A handler is a sequence of Redis commands with an await at each one, so *)
(* every command is a step of its own: between two of them a key may       *)
(* expire, the query service may read, or the process may die.  A command  *)
(* or publish that fails ends the process (`?`), except for the reads that *)
(* take a failure for an absent key (`if let Ok`, unwrap_or_default):      *)
(* these are the actions ...Misread.                                       *)
(***************************************************************************)
EXTENDS Naturals, FiniteSets, Sequences, NodeTypes

CONSTANTS
    Peer,               \* peer ids
    Version,            \* client versions
    Endpoint,           \* addresses with port
    Null,               \* Redis nil, or no message
    Inbox,              \* the reports that may arrive over MQTT
    Places,             \* what ipinfo.io may answer: the fields not empty
    Capacity,           \* capacity of each channel, by kind of report
    WitnessThreshold,   \* ckb_node_default_witnesses
    OnlineTimeout,      \* ckb_node_default_timeout, in time units
    UnknownTimeout,     \* ckb_node_unknown_default_timeout, in time units
    MaxFailures         \* bound on the failures of a behaviour

Kind == {"online", "unknown", "reachable"}

\* PeerInfo, NodeMetaInfo and ReachableInfo, as far as the handlers look at
\* them.  hasAddr says whether addresses.first() is Some; the order of the
\* addresses of a ReachableInfo is abstracted to a set.
OnlineReport    == [kind : {"online"}, peer : Peer, version : Version,
                    isEx : BOOLEAN, hasAddr : BOOLEAN]
UnknownReport   == [kind : {"unknown"}, peer : Peer]
ReachableReport == [kind : {"reachable"}, peer : Peer, from : Peer,
                    addrs : SUBSET Endpoint, network : Networks]
Report == OnlineReport \cup UnknownReport \cup ReachableReport
ReportOf(k) == {m \in Report : m.kind = k}

\* The message of topic peer/needs_dial (NodeMetaInfo).
DialRequest == [peer : Peer, addrs : SUBSET Endpoint, network : Networks]

\* The fields of a location.
GeoField == {"country", "city", "region", "pos"}

ASSUME MarciAssumption ==
    /\ Inbox \subseteq Report
    /\ Places \subseteq SUBSET GeoField
    /\ Capacity \in [Kind -> Nat \ {0}]
    /\ WitnessThreshold \in Nat \ {0}
    /\ OnlineTimeout \in Nat \ {0}
    /\ UnknownTimeout \in Nat \ {0}
    /\ MaxFailures \in Nat
    /\ Null \notin Version \cup {"unknown"} \cup Report \cup DialRequest
    /\ Null \notin Nat /\ \A ps \in SUBSET Peer : ps # Null

\* The keys with a time to live: peer.online.{}, peer.online2.{} and
\* peer.unknown.{}.
Status == {"online", "online2", "unknown"}
StatusKey == Status \X Peer

\* The fields peer_info.{}.x written by the handlers.  Only their presence
\* is kept; a field whose value is the empty string counts as absent.
Field == GeoField \cup {"full", "last_seen"}

VARIABLES
    \* Redis
    val,          \* [StatusKey -> value or Null]
    ttl,          \* [StatusKey -> time units left]; 0 = the key is due
    reachable,    \* peer.reachable.{}: the witnesses of each peer
    quick,        \* network.peer.{}.{}: the networks indexed for each peer
    ips,          \* peer_info.{}.ip
    network,      \* peer_info.{}.network, "" when absent
    info,         \* the other peer_info.{}.x present for each peer
    lastUpdate,   \* service.last_update is set
    \* the MQTT task and the channels
    held,         \* the report the MQTT task is sending to its channel
    rx,           \* online_rx, unknown_rx and reachable_rx
    \* the main loop
    pc, cur, todo, geo,
    needs_dial,   \* the publish to peer/needs_dial not acknowledged yet
    \* history: the handlers a failure has left undone, and not redone since;
    \* the failures so far; the peers that became unknown while their online2
    \* key was there, and have not been reported online since
    torn, failures, eclipsed

redis == <<val, ttl, reachable, quick, ips, network, info, lastUpdate>>
queues == <<held, rx>>
loop == <<pc, cur, todo, geo>>
history == <<torn, failures, eclipsed>>
vars == <<redis, queues, loop, needs_dial, history>>

Online(p)  == val[<<"online", p>>] # Null
Online2(p) == val[<<"online2", p>>] # Null
Unknown(p) == val[<<"unknown", p>>] # Null
\* What the query service shows: any of the three keys puts a peer on the map.
InMap(p) == Online(p) \/ Online2(p) \/ Unknown(p)

Init ==
    /\ val = [k \in StatusKey |-> Null]
    /\ ttl = [k \in StatusKey |-> 0]
    /\ reachable = [p \in Peer |-> {}]
    /\ quick = [p \in Peer |-> {}]
    /\ ips = [p \in Peer |-> {}]
    /\ network = [p \in Peer |-> ""]
    /\ info = [p \in Peer |-> {}]
    /\ lastUpdate = FALSE
    /\ held = Null
    /\ rx = [k \in Kind |-> <<>>]
    /\ pc = "idle" /\ cur = Null /\ todo = {} /\ geo = {}
    /\ needs_dial = Null
    /\ torn = {} /\ failures = 0 /\ eclipsed = {}

------------------------------------------------------------------------------
(* Redis commands *)

SetEx(k, v, t) == val' = [val EXCEPT ![k] = v] /\ ttl' = [ttl EXCEPT ![k] = t]

\* EXPIRE on a missing key does nothing.
ExpireIn(k, t) ==
    /\ ttl' = IF val[k] = Null THEN ttl ELSE [ttl EXCEPT ![k] = t]
    /\ UNCHANGED val

Del(k) == val' = [val EXCEPT ![k] = Null] /\ ttl' = [ttl EXCEPT ![k] = 0]

SetField(f) == info' = [info EXCEPT ![cur.peer] = @ \cup {f}]

\* A key whose time is up disappears, at any moment.
KeyExpires(k) ==
    /\ val[k] # Null /\ ttl[k] = 0
    /\ Del(k)
    /\ UNCHANGED <<reachable, quick, ips, network, info, lastUpdate,
                   queues, loop, needs_dial, history>>

\* A time unit passes.  Units are much longer than a handler: time passes
\* between handlers or while a publish waits for the broker, once the keys
\* that are due are gone.
TimePasses ==
    /\ pc \in {"idle", "bc_publish", "down"}
    /\ \A k \in StatusKey : val[k] # Null => ttl[k] > 0
    /\ \E k \in StatusKey : val[k] # Null
    /\ ttl' = [k \in StatusKey |-> IF val[k] = Null THEN 0 ELSE ttl[k] - 1]
    /\ UNCHANGED <<val, reachable, quick, ips, network, info, lastUpdate,
                   queues, loop, needs_dial, history>>

------------------------------------------------------------------------------
(* The MQTT task: one report at a time, blocked while its channel is full. *)

MqttReceive(m) ==
    /\ pc # "down" /\ held = Null
    /\ held' = m
    /\ UNCHANGED <<redis, rx, loop, needs_dial, history>>

\* Mutant: the last slot of a channel is never used.
MqttForwardSpare ==
    /\ held # Null
    /\ Len(rx[held.kind]) + 1 < Capacity[held.kind]
    /\ rx' = [rx EXCEPT ![held.kind] = Append(@, held)]
    /\ held' = Null
    /\ UNCHANGED <<redis, loop, needs_dial, history>>

MqttForward ==
    /\ held # Null
    /\ Len(rx[held.kind]) < Capacity[held.kind]
    /\ rx' = [rx EXCEPT ![held.kind] = Append(@, held)]
    /\ held' = Null
    /\ UNCHANGED <<redis, loop, needs_dial, history>>

------------------------------------------------------------------------------
(* The main loop: select! takes a report from any channel that has one.    *)

\* Mutant: the channels of two handlers are mixed up.
FirstStepMixed(k) == IF k = "online" THEN "un_get"
                     ELSE IF k = "unknown" THEN "on_get" ELSE "re_sadd"

FirstStep(k) == IF k = "online" THEN "on_get"
                ELSE IF k = "unknown" THEN "un_get" ELSE "re_sadd"

\* Mutant: a biased select! looks at reachable_rx last.
TakeBiased(k) ==
    /\ pc = "idle" /\ rx[k] # <<>>
    /\ k = "reachable" => rx["online"] = <<>> /\ rx["unknown"] = <<>>
    /\ cur' = Head(rx[k])
    /\ rx' = [rx EXCEPT ![k] = Tail(@)]
    /\ pc' = FirstStep(k)
    /\ UNCHANGED <<redis, held, todo, geo, needs_dial, history>>

Take(k) ==
    /\ pc = "idle" /\ rx[k] # <<>>
    /\ cur' = Head(rx[k])
    /\ rx' = [rx EXCEPT ![k] = Tail(@)]
    /\ pc' = FirstStep(k)
    /\ UNCHANGED <<redis, held, todo, geo, needs_dial, history>>

\* The handler of cur is finished: what an earlier failure left is redone.
Finish ==
    /\ pc' = "idle" /\ cur' = Null /\ geo' = {}
    /\ torn' = torn \ {<<cur.kind, cur.peer>>}
    /\ eclipsed' = IF cur.kind = "online" THEN eclipsed \ {cur.peer} ELSE eclipsed
    /\ UNCHANGED <<todo, failures>>

Goto(step) == pc' = step /\ UNCHANGED <<cur, todo, geo, history>>

\* A read of Redis fails and is taken for the absence of the key.
Misread == failures < MaxFailures /\ failures' = failures + 1

\* SET of service.last_update.  Its result is not looked at: a failure,
\* which is not counted, leaves the key as it was.
UpdateService == lastUpdate' \in {lastUpdate, TRUE}

statusKept == <<val, ttl>>
peerKept == <<reachable, quick, ips, network, info, lastUpdate>>

------------------------------------------------------------------------------
(* Looking up an address at ipinfo.io: it may fail, and any of the four    *)
(* strings of an answer may be empty.  They are written one by one.        *)

Lookup(otherwise) ==
    /\ \/ pc' = otherwise /\ UNCHANGED geo
       \/ pc' = "country" /\ geo' \in Places
    /\ UNCHANGED <<cur, todo, history>>

\* The fields are written in the order country, city, region, pos.
AfterGeo == IF pc = "country" THEN "city"
            ELSE IF pc = "city" THEN "region"
            ELSE IF pc = "region" THEN "pos"
            ELSE IF cur.kind = "online" THEN "on_full" ELSE "re_service"

WriteGeo ==
    /\ pc \in GeoField
    /\ info' = [info EXCEPT ![cur.peer] =
                   IF pc \in geo THEN @ \cup {pc} ELSE @ \ {pc}]
    /\ pc' = AfterGeo
    /\ UNCHANGED <<statusKept, reachable, quick, ips, network, lastUpdate,
                   queues, cur, todo, geo, needs_dial, history>>

------------------------------------------------------------------------------
(* online_rx: a peer answered a dialer. *)

\* Mutant: any key of the peer counts as its online key.
OnlineGetAny ==
    /\ pc = "on_get"
    /\ Goto(IF InMap(cur.peer) THEN "on_expire" ELSE "on_set")
    /\ UNCHANGED <<redis, queues, needs_dial>>

OnlineGet ==
    /\ pc = "on_get"
    /\ Goto(IF Online(cur.peer) THEN "on_expire" ELSE "on_set")
    /\ UNCHANGED <<redis, queues, needs_dial>>

OnlineMisread ==
    /\ pc = "on_get" /\ Misread
    /\ pc' = "on_set"
    /\ UNCHANGED <<redis, queues, cur, todo, geo, needs_dial, torn, eclipsed>>

OnlineExpire ==
    /\ pc = "on_expire"
    /\ ExpireIn(<<"online", cur.peer>>, OnlineTimeout)
    /\ Goto("on_addr")
    /\ UNCHANGED <<peerKept, queues, needs_dial>>

OnlineSet ==
    /\ pc = "on_set"
    /\ SetEx(<<IF cur.isEx THEN "online2" ELSE "online", cur.peer>>,
             cur.version, OnlineTimeout)
    /\ Goto("on_addr")
    /\ UNCHANGED <<peerKept, queues, needs_dial>>

\* online.{}.ip, which is written here too, is read by nobody.
OnlineAddr ==
    /\ pc = "on_addr"
    /\ IF cur.hasAddr THEN Lookup("on_full") ELSE Goto("on_full")
    /\ UNCHANGED <<redis, queues, needs_dial>>

\* Mutant: last_seen is not written.
OnlineFullUnseen ==
    /\ pc = "on_full"
    /\ SetField("full")
    /\ Goto("on_del")
    /\ UNCHANGED <<statusKept, reachable, quick, ips, network, lastUpdate,
                   queues, needs_dial>>

OnlineFull ==
    /\ pc = "on_full"
    /\ SetField("full")
    /\ Goto("on_seen")
    /\ UNCHANGED <<statusKept, reachable, quick, ips, network, lastUpdate,
                   queues, needs_dial>>

OnlineSeen ==
    /\ pc = "on_seen"
    /\ SetField("last_seen")
    /\ Goto("on_del")
    /\ UNCHANGED <<statusKept, reachable, quick, ips, network, lastUpdate,
                   queues, needs_dial>>

\* Mutant: the unknown key is dropped only along with a plain online key.
OnlineDelPlain ==
    /\ pc = "on_del"
    /\ IF cur.isEx THEN UNCHANGED statusKept ELSE Del(<<"unknown", cur.peer>>)
    /\ Finish
    /\ UNCHANGED <<peerKept, queues, needs_dial>>

OnlineDel ==
    /\ pc = "on_del"
    /\ Del(<<"unknown", cur.peer>>)
    /\ Finish
    /\ UNCHANGED <<peerKept, queues, needs_dial>>

OnlineStep == \/ OnlineGet \/ OnlineMisread \/ OnlineExpire \/ OnlineSet
              \/ OnlineAddr \/ OnlineFull \/ OnlineSeen \/ OnlineDel

------------------------------------------------------------------------------
(* unknown_rx: a dialer could not reach a peer. *)

UnknownGet ==
    /\ pc = "un_get"
    /\ Goto(IF Online(cur.peer) THEN "un_expire" ELSE "un_scard")
    /\ UNCHANGED <<redis, queues, needs_dial>>

\* From here on the keys of the peer may be out of step, until the next
\* online report of the peer.
UnknownMisread ==
    /\ pc = "un_get" /\ Misread
    /\ pc' = "un_scard"
    /\ torn' = torn \cup {<<"online", cur.peer>>}
    /\ UNCHANGED <<redis, queues, cur, todo, geo, needs_dial, eclipsed>>

UnknownExpire ==
    /\ pc = "un_expire"
    /\ ExpireIn(<<"online", cur.peer>>, OnlineTimeout)
    /\ Goto("un_seen")
    /\ UNCHANGED <<peerKept, queues, needs_dial>>

\* Mutant: one witness less is enough.
UnknownScardLess ==
    /\ pc = "un_scard"
    /\ Goto(IF Cardinality(reachable[cur.peer]) + 1 >= WitnessThreshold
            THEN "un_set" ELSE "un_seen")
    /\ UNCHANGED <<redis, queues, needs_dial>>

\* Mutant: the witnesses are deleted before the unknown key is set.
UnknownScardDelFirst ==
    /\ pc = "un_scard"
    /\ Goto(IF Cardinality(reachable[cur.peer]) >= WitnessThreshold
            THEN "un_del" ELSE "un_seen")
    /\ UNCHANGED <<redis, queues, needs_dial>>

UnknownScard ==
    /\ pc = "un_scard"
    /\ Goto(IF Cardinality(reachable[cur.peer]) >= WitnessThreshold
            THEN "un_set" ELSE "un_seen")
    /\ UNCHANGED <<redis, queues, needs_dial>>

\* No witness is counted.
WitnessesMisread ==
    /\ pc = "un_scard" /\ Misread
    /\ pc' = "un_seen"
    /\ UNCHANGED <<redis, queues, cur, todo, geo, needs_dial, torn, eclipsed>>

UnknownSet ==
    /\ pc = "un_set"
    /\ SetEx(<<"unknown", cur.peer>>, "unknown", UnknownTimeout)
    /\ pc' = "un_del"
    /\ eclipsed' = IF Online2(cur.peer) THEN eclipsed \cup {cur.peer} ELSE eclipsed
    /\ UNCHANGED <<peerKept, queues, cur, todo, geo, needs_dial, torn, failures>>

\* Mutant: the key just set is deleted, not the witnesses.
UnknownDelKey ==
    /\ pc = "un_del"
    /\ Del(<<"unknown", cur.peer>>)
    /\ Goto("un_seen")
    /\ UNCHANGED <<peerKept, queues, needs_dial>>

UnknownDel ==
    /\ pc = "un_del"
    /\ reachable' = [reachable EXCEPT ![cur.peer] = {}]
    /\ Goto("un_seen")
    /\ UNCHANGED <<statusKept, quick, ips, network, info, lastUpdate,
                   queues, needs_dial>>

UnknownSeen ==
    /\ pc = "un_seen"
    /\ SetField("last_seen")
    /\ Finish
    /\ UNCHANGED <<statusKept, reachable, quick, ips, network, lastUpdate,
                   queues, needs_dial>>

UnknownStep == \/ UnknownGet \/ UnknownMisread \/ UnknownExpire
               \/ UnknownScard \/ WitnessesMisread \/ UnknownSet
               \/ UnknownDel \/ UnknownSeen

------------------------------------------------------------------------------
(* reachable_rx: a peer was named by another peer. *)

ReachableSadd ==
    /\ pc = "re_sadd"
    /\ reachable' = [reachable EXCEPT ![cur.peer] = @ \cup {cur.from}]
    /\ Goto("re_quick")
    /\ UNCHANGED <<statusKept, quick, ips, network, info, lastUpdate,
                   queues, needs_dial>>

\* Mutant: the index uses the legacy name of the network.
ReachableQuickLegacy ==
    /\ pc = "re_quick"
    /\ quick' = [quick EXCEPT ![cur.peer] = @ \cup {IntoLegacyStr(cur.network)}]
    /\ pc' = "re_ips" /\ todo' = cur.addrs
    /\ UNCHANGED <<statusKept, reachable, ips, network, info, lastUpdate,
                   queues, cur, geo, needs_dial, history>>

ReachableQuick ==
    /\ pc = "re_quick"
    /\ quick' = [quick EXCEPT ![cur.peer] = @ \cup {IntoStr(cur.network)}]
    /\ pc' = "re_ips" /\ todo' = cur.addrs
    /\ UNCHANGED <<statusKept, reachable, ips, network, info, lastUpdate,
                   queues, cur, geo, needs_dial, history>>

ReachableIp ==
    /\ pc = "re_ips"
    /\ \E e \in todo :
          /\ ips' = [ips EXCEPT ![cur.peer] = @ \cup {e}]
          /\ todo' = todo \ {e}
    /\ UNCHANGED <<statusKept, reachable, quick, network, info, lastUpdate,
                   queues, pc, cur, geo, needs_dial, history>>

ReachableNetwork ==
    /\ pc = "re_ips" /\ todo = {}
    /\ network' = [network EXCEPT ![cur.peer] = IntoStr(cur.network)]
    /\ Goto("re_seen")
    /\ UNCHANGED <<statusKept, reachable, quick, ips, info, lastUpdate,
                   queues, needs_dial>>

ReachableSeen ==
    /\ pc = "re_seen"
    /\ SetField("last_seen")
    /\ Goto("re_country")
    /\ UNCHANGED <<statusKept, reachable, quick, ips, network, lastUpdate,
                   queues, needs_dial>>

\* query_by_reachable has nothing to look up when there is no address.
ReachableCountry ==
    /\ pc = "re_country"
    /\ IF "country" \notin info[cur.peer] /\ cur.addrs # {}
       THEN Lookup("re_service") ELSE Goto("re_service")
    /\ UNCHANGED <<redis, queues, needs_dial>>

CountryMisread ==
    /\ pc = "re_country" /\ cur.addrs # {} /\ Misread
    /\ \/ pc' = "re_service" /\ UNCHANGED geo
       \/ pc' = "country" /\ geo' \in Places
    /\ UNCHANGED <<redis, queues, cur, todo, needs_dial, torn, eclipsed>>

ReachableService ==
    /\ pc = "re_service"
    /\ UpdateService
    /\ Finish
    /\ UNCHANGED <<statusKept, reachable, quick, ips, network, info,
                   queues, needs_dial>>

ReachableStep == \/ ReachableSadd \/ ReachableQuick \/ ReachableIp
                 \/ ReachableNetwork \/ ReachableSeen \/ ReachableCountry
                 \/ CountryMisread \/ ReachableService

------------------------------------------------------------------------------
(* reachable_broadcast_interval: the timer branch of select!.  The loop    *)
(* waits for each publish to be acknowledged before the next one.          *)

\* Mutant: only peers with several witnesses are sent.
BroadcastKeysSeveral ==
    /\ pc = "idle"
    /\ pc' = "bc_publish" /\ todo' = {p \in Peer : Cardinality(reachable[p]) > 1}
    /\ UNCHANGED <<redis, queues, cur, geo, needs_dial, history>>

BroadcastKeys ==
    /\ pc = "idle"
    /\ pc' = "bc_publish" /\ todo' = {p \in Peer : reachable[p] # {}}
    /\ UNCHANGED <<redis, queues, cur, geo, needs_dial, history>>

BroadcastPublish ==
    /\ pc = "bc_publish" /\ needs_dial = Null
    /\ \E p \in todo :
          /\ needs_dial' = [peer |-> p, addrs |-> ips[p],
                            network |-> FromString(network[p])]
          /\ todo' = todo \ {p}
    /\ UNCHANGED <<redis, queues, pc, cur, geo, history>>

\* The addresses or the network of a peer, or both, are not read.
BroadcastMisread ==
    /\ pc = "bc_publish" /\ needs_dial = Null /\ Misread
    /\ \E p \in todo : \E as \in {ips[p], {}}, n \in {network[p], ""} :
          /\ needs_dial' = [peer |-> p, addrs |-> as, network |-> FromString(n)]
          /\ todo' = todo \ {p}
    /\ UNCHANGED <<redis, queues, pc, cur, geo, torn, eclipsed>>

BroadcastService ==
    /\ pc = "bc_publish" /\ todo = {} /\ needs_dial = Null
    /\ UpdateService
    /\ Goto("idle")
    /\ UNCHANGED <<statusKept, reachable, quick, ips, network, info,
                   queues, needs_dial>>

BroadcastStep == BroadcastPublish \/ BroadcastMisread \/ BroadcastService

\* The broker acknowledges the publish and passes it to the dialers.
BrokerAck ==
    /\ needs_dial # Null
    /\ needs_dial' = Null
    /\ UNCHANGED <<redis, queues, loop, history>>

------------------------------------------------------------------------------
(* The process ends, at an error of Redis or of a publish or by a kill:    *)
(* what is in memory is lost, Redis stays as it is.                        *)

Crash ==
    /\ pc # "down" /\ failures < MaxFailures
    /\ pc' = "down" /\ cur' = Null /\ todo' = {} /\ geo' = {}
    /\ held' = Null /\ rx' = [k \in Kind |-> <<>>]
    /\ torn' = IF cur = Null THEN torn ELSE torn \cup {<<cur.kind, cur.peer>>}
    /\ failures' = failures + 1
    /\ UNCHANGED <<redis, needs_dial, eclipsed>>

Restart ==
    /\ pc = "down"
    /\ Goto("idle")
    /\ UNCHANGED <<redis, queues, needs_dial>>

------------------------------------------------------------------------------

HandlerStep == OnlineStep \/ UnknownStep \/ ReachableStep \/ WriteGeo

Next ==
    \/ \E m \in Inbox : MqttReceive(m)
    \/ MqttForward
    \/ \E k \in Kind : Take(k)
    \/ HandlerStep
    \/ BroadcastKeys \/ BroadcastStep \/ BrokerAck
    \/ \E k \in StatusKey : KeyExpires(k)
    \/ TimePasses
    \/ Crash \/ Restart

Spec == Init /\ [][Next]_vars

\* The tasks are scheduled fairly.  select! starts polling at a random
\* branch, so a branch that is ready again and again is taken in the end.
Fairness ==
    /\ WF_vars(HandlerStep) /\ WF_vars(BroadcastStep) /\ WF_vars(MqttForward)
    /\ \A k \in Kind : SF_vars(Take(k))
    /\ SF_vars(BroadcastKeys)
    /\ WF_vars(BrokerAck)

FairSpec == Spec /\ Fairness

------------------------------------------------------------------------------
(* Properties *)

Handling(k, p) == cur # Null /\ cur.kind = k /\ cur.peer = p

\* The steps of the online handler after its key was set or refreshed.
OnlineWritten == GeoField \cup {"on_addr", "on_full", "on_seen", "on_del"}
OnlinePc == {"on_get", "on_expire", "on_set"} \cup OnlineWritten
UnknownPc == {"un_get", "un_expire", "un_scard", "un_set", "un_del", "un_seen"}
ReachablePc == GeoField \cup {"re_sadd", "re_quick", "re_ips", "re_seen",
                              "re_country", "re_service"}
\* The steps at which the main loop handles no report.
FreePc == {"idle", "bc_publish", "down"}
Step == FreePc \cup OnlinePc \cup UnknownPc \cup ReachablePc

\* Every variable has its type, a channel holds reports of its own kind and
\* the steps of a handler have a report of its kind at hand.
TypeOK ==
    /\ val \in [StatusKey -> Version \cup {"unknown", Null}]
    /\ ttl \in [StatusKey -> Nat]
    /\ reachable \in [Peer -> SUBSET Peer]
    /\ quick \in [Peer -> SUBSET NetworkStrings]
    /\ ips \in [Peer -> SUBSET Endpoint]
    /\ network \in [Peer -> NetworkStrings \cup {""}]
    /\ info \in [Peer -> SUBSET Field]
    /\ lastUpdate \in BOOLEAN
    /\ held \in Report \cup {Null}
    /\ rx \in [Kind -> Seq(Report)]
    /\ \A k \in Kind : rx[k] \in Seq(ReportOf(k))
    /\ pc \in Step
    /\ cur \in Report \cup {Null}
    /\ IF pc \in FreePc
       THEN cur = Null
       ELSE /\ cur # Null
            /\ cur.kind = "online" => pc \in OnlinePc
            /\ cur.kind = "unknown" => pc \in UnknownPc
            /\ cur.kind = "reachable" => pc \in ReachablePc
    /\ todo \in SUBSET (Endpoint \cup Peer)
    /\ pc = "bc_publish" => todo \in SUBSET Peer
    /\ pc = "re_ips" => todo \in SUBSET Endpoint
    /\ geo \in SUBSET GeoField
    /\ needs_dial \in DialRequest \cup {Null}
    /\ torn \in SUBSET (Kind \X Peer)
    /\ failures \in Nat /\ eclipsed \in SUBSET Peer

\* A peer that has an online key of either kind has no unknown key: the
\* online handler drops it.  The two coexist only while the online handler is
\* between its SET and its DEL; or after a failure (it was cut short there, or
\* the unknown handler failed to see the online key) and until an online report
\* of the peer is handled to the end; or because the unknown handler, which
\* does not look at the online2 key, has upgraded a peer that had no other one,
\* until the next online report of the peer.
MapExclusive ==
    \A p \in Peer : Unknown(p) /\ (Online(p) \/ Online2(p)) =>
        \/ Handling("online", p) /\ pc \in OnlineWritten
        \/ <<"online", p>> \in torn
        \/ p \in eclipsed /\ ~Online(p)

\* A peer on the map leaves it only because a key expires: the online handler,
\* which deletes the unknown key, has put another key in its place before.
\* After a failure this may take until an online report of the peer is handled
\* to the end: a process that died there left keys that may expire first.
LeavesMapOnlyByExpiry ==
    [][\A p \in Peer : InMap(p) /\ ~InMap(p)' =>
          \/ \E s \in Status : KeyExpires(<<s, p>>)
          \/ <<"online", p>> \in torn]_vars

\* The witnesses of a peer are given up only when there are enough of them
\* and the peer is on the map as unknown: a process that dies in the unknown
\* handler loses neither the witnesses nor the peer.
WitnessesTraded ==
    [][\A p \in Peer : ~(reachable[p] \subseteq reachable'[p]) =>
          /\ Unknown(p)
          /\ Cardinality(reachable[p]) >= WitnessThreshold]_vars

\* Dialers are asked to dial a peer only on a network on which it was
\* reported, and which the query service has indexed, unless the reachable
\* handler of the peer was cut short or the network key is not read now (a
\* missing network is taken for Mirana).
DialNetworkKnown ==
    [][needs_dial' # needs_dial /\ needs_dial' # Null =>
          \/ IntoStr(needs_dial'.network) \in quick[needs_dial'.peer]
          \/ <<"reachable", needs_dial'.peer>> \in torn
          \/ failures' # failures]_vars

\* A peer on the map has a last_seen time, so that the query service does not
\* show it as last seen at the epoch, unless the handler that put it there is
\* still running or was cut short.
ShownPeerHasLastSeen ==
    \A p \in Peer : InMap(p) =>
        \/ "last_seen" \in info[p]
        \/ Handling("online", p) \/ Handling("unknown", p)
        \/ <<"online", p>> \in torn \/ <<"unknown", p>> \in torn

\* A full channel never blocks the MQTT task for good.
MqttNeverStuck == held # Null ~> held = Null

\* No kind of report is starved by the others or by the timer.
EveryKindServed ==
    \A k \in Kind : rx[k] # <<>> ~> (pc = FirstStep(k) \/ pc = "down")

\* A peer with a witness is sent to the dialers, unless it is upgraded to
\* unknown before.
ReachableIsDialed ==
    \A p \in Peer : reachable[p] # {} ~>
        \/ needs_dial # Null /\ needs_dial.peer = p
        \/ reachable[p] = {}
        \/ pc = "down"

MapOf == [p \in Peer |-> {s \in Status : val[<<s, p>>] # Null}]
DueOf == {k \in StatusKey : val[k] # Null /\ ttl[k] = 0}
CutOf == {p \in Peer : <<"online", p>> \in torn}

\* The keys that the query service reads behave as the abstract map of peers,
\* across interleavings, expiry and failures.
PM == INSTANCE PeerMap WITH map <- MapOf, due <- DueOf, cut <- CutOf,
                            index <- quick, updated <- lastUpdate
ImplementsPeerMap == PM!Spec

\* The state of Registry.  A report takes effect there at the step that
\* writes its key (online, unknown) or its witness (reachable); the commands
\* that are still to follow are shown as done.  An online key that the handler
\* has seen and is about to renew is shown as due, should it be gone.
Naming(p) == Handling("reachable", p) /\ pc \in {"re_quick", "re_ips"}
Renewing(k) == k[1] = "online" /\ pc \in {"on_expire", "un_expire"} /\ cur.peer = k[2]
Erasing(k) == k[1] = "unknown" /\ Handling("online", k[2]) /\ pc \in OnlineWritten
LeftOf == [k \in StatusKey |->
    IF Erasing(k) THEN Null
    ELSE IF val[k] = Null THEN IF Renewing(k) THEN 0 ELSE Null
    ELSE ttl[k]]
WitnessesOf == [p \in Peer |->
    IF pc = "un_del" /\ cur.peer = p THEN {} ELSE reachable[p]]
QuickOf == [p \in Peer |->
    IF Naming(p) THEN quick[p] \cup {IntoStr(cur.network)} ELSE quick[p]]
IpsOf == [p \in Peer |-> IF Naming(p) THEN ips[p] \cup cur.addrs ELSE ips[p]]
NetworkOf == [p \in Peer |-> IF Naming(p) THEN IntoStr(cur.network) ELSE network[p]]
RoundOf == IF pc = "bc_publish" THEN todo ELSE Null

\* Until a failure happens, the control centre handles one report at a
\* time, as Registry says: neither the commands of a handler one by one, nor
\* keys that expire between them, nor the waits of the broadcast show.
R == INSTANCE Registry WITH left <- LeftOf, reachable <- WitnessesOf,
        quick <- QuickOf, ips <- IpsOf, network <- NetworkOf, round <- RoundOf
ImplementsRegistry == R!Init /\ [][failures' = 0 => R!Next]_(R!vars)

\* What the log line after the online handler says, "Online key set {}
\* version: {}": there is a key, and it holds the version of the report.
LoggedVersionIsSet ==
    pc = "on_del" => \E s \in {"online", "online2"} :
                        val[<<s, cur.peer>>] = cur.version
==============================================================================
