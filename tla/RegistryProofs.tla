---------------------------- MODULE RegistryProofs ----------------------------
(***************************************************************************)
(* Proof that Marci, command by command, implements Registry, report by    *)
(* report, until a failure happens.                                        *)
(***************************************************************************)
EXTENDS MarciProofs

(* What the mapping needs beyond MarciInv.                                 *)

\* Only a failure leaves a handler undone.
TornByFailure == failures = 0 => torn = {}

\* What is handled has arrived.
FromInbox ==
    /\ held \in Inbox \cup {Null} /\ cur \in Inbox \cup {Null}
    /\ \A k \in Kind : rx[k] \in Seq(Inbox)

\* A key is set only if there was none, and nobody else sets it.
SetWhenAbsent == pc = "on_set" /\ failures = 0 => ~Online(cur.peer)

\* The addresses of a report are written one by one.
AddrsWritten ==
    pc = "re_ips" => /\ todo \subseteq cur.addrs
                     /\ cur.addrs \ todo \subseteq ips[cur.peer]

RegistryInv == TornByFailure /\ FromInbox /\ SetWhenAbsent /\ AddrsWritten

------------------------------------------------------------------------------

\* The failures are counted, and the count never goes back.
LEMMA FailureStep ==
    ASSUME TypeOK, [Next]_vars, failures' = 0
    PROVE  /\ failures = 0
           /\ ~(Crash \/ OnlineMisread \/ UnknownMisread \/ WitnessesMisread
                  \/ CountryMisread \/ BroadcastMisread)
<1>1. failures \in Nat
  BY DEF TypeOK
<1>2. CASE \/ Crash \/ OnlineMisread \/ UnknownMisread \/ WitnessesMisread
           \/ CountryMisread \/ BroadcastMisread
  <2>1. failures' = failures + 1
    BY <1>2 DEF Crash, OnlineMisread, UnknownMisread, WitnessesMisread,
        CountryMisread, BroadcastMisread, Misread
  <2> QED BY <1>1, <2>1
<1>3. CASE ~(\/ Crash \/ OnlineMisread \/ UnknownMisread \/ WitnessesMisread
             \/ CountryMisread \/ BroadcastMisread)
  BY <1>3 DEF Next, HandlerStep, MqttReceive, MqttForward, Take, OnlineStep, OnlineGet,
      OnlineExpire, OnlineSet, OnlineAddr, OnlineFull, OnlineSeen,
      OnlineDel, UnknownStep, UnknownGet, UnknownExpire,
      UnknownScard, UnknownSet, UnknownDel, UnknownSeen,
      ReachableStep, ReachableSadd, ReachableQuick, ReachableIp, ReachableNetwork,
      ReachableSeen, ReachableCountry, ReachableService, WriteGeo,
      BroadcastKeys, BroadcastStep, BroadcastPublish,
      BroadcastService, BrokerAck, KeyExpires, TimePasses, Restart, Goto,
      Finish, Lookup, vars, history
<1> QED BY <1>2, <1>3

LEMMA TornStep == TypeOK /\ TornByFailure /\ [Next]_vars => TornByFailure'
<1> SUFFICES ASSUME TypeOK, TornByFailure, [Next]_vars, failures' = 0
             PROVE  torn' = {}
  BY DEF TornByFailure
<1>1. /\ torn = {}
      /\ ~(Crash \/ OnlineMisread \/ UnknownMisread \/ WitnessesMisread
             \/ CountryMisread \/ BroadcastMisread)
  BY FailureStep DEF TornByFailure
<1>2. torn' \subseteq torn
  BY <1>1 DEF Next, HandlerStep, MqttReceive, MqttForward, Take, OnlineStep, OnlineGet,
      OnlineExpire, OnlineSet, OnlineAddr, OnlineFull, OnlineSeen,
      OnlineDel, UnknownStep, UnknownGet, UnknownExpire,
      UnknownScard, UnknownSet, UnknownDel, UnknownSeen,
      ReachableStep, ReachableSadd, ReachableQuick, ReachableIp, ReachableNetwork,
      ReachableSeen, ReachableCountry, ReachableService, WriteGeo,
      BroadcastKeys, BroadcastStep, BroadcastPublish,
      BroadcastService, BrokerAck, KeyExpires, TimePasses, Restart, Goto,
      Finish, Lookup, vars, history
<1> QED BY <1>1, <1>2

LEMMA InboxStep == TypeOK /\ FromInbox /\ [Next]_vars => FromInbox'
<1> SUFFICES ASSUME TypeOK, FromInbox, [Next]_vars PROVE FromInbox'
  OBVIOUS
<1>1. rx \in [Kind -> Seq(Report)] /\ held \in Report \cup {Null}
  BY DEF TypeOK
<1>2. ASSUME NEW m \in Inbox, MqttReceive(m) PROVE FromInbox'
  BY <1>2 DEF MqttReceive, FromInbox, loop
<1>3. CASE MqttForward
  <2>1. held \in Inbox /\ held.kind \in Kind
    BY <1>1, <1>3, ReportFacts DEF MqttForward, FromInbox
  <2>2. \A k \in Kind : rx'[k] \in Seq(Inbox)
    BY <1>1, <1>3, <2>1, AppendType DEF MqttForward, FromInbox
  <2> QED BY <1>3, <2>2 DEF MqttForward, FromInbox, loop
<1>4. ASSUME NEW k \in Kind, Take(k) PROVE FromInbox'
  <2>1. Head(rx[k]) \in Inbox /\ Tail(rx[k]) \in Seq(Inbox)
    BY <1>4, HeadTailType DEF Take, FromInbox
  <2>2. \A j \in Kind : rx'[j] \in Seq(Inbox)
    BY <1>1, <1>4, <2>1 DEF Take, FromInbox
  <2> QED BY <1>4, <2>1, <2>2 DEF Take, FromInbox
<1>5. CASE Crash
  BY <1>5, EmptyType DEF Crash, FromInbox
<1>6. CASE held' = held /\ rx' = rx /\ cur' \in {cur, Null}
  BY <1>6 DEF FromInbox
<1> QED
  BY <1>2, <1>3, <1>4, <1>5, <1>6
  DEF Next, HandlerStep, OnlineStep, OnlineGet, OnlineMisread,
      OnlineExpire, OnlineSet, OnlineAddr, OnlineFull, OnlineSeen,
      OnlineDel, UnknownStep, UnknownGet, UnknownMisread, UnknownExpire,
      UnknownScard, WitnessesMisread, UnknownSet, UnknownDel, UnknownSeen,
      ReachableStep, ReachableSadd, ReachableQuick, ReachableIp, ReachableNetwork,
      ReachableSeen, ReachableCountry, CountryMisread, ReachableService, WriteGeo,
      BroadcastKeys, BroadcastStep, BroadcastPublish, BroadcastMisread,
      BroadcastService, BrokerAck, KeyExpires, TimePasses, Restart, Goto,
      Finish, Lookup, vars, loop, queues

LEMMA AbsentStep == TypeOK /\ SetWhenAbsent /\ [Next]_vars => SetWhenAbsent'
<1> SUFFICES ASSUME TypeOK, SetWhenAbsent, [Next]_vars, pc' = "on_set", failures' = 0
             PROVE  ~Online(cur.peer)' 
  BY DEF SetWhenAbsent
<1>1. /\ failures = 0
      /\ ~(Crash \/ OnlineMisread \/ UnknownMisread \/ WitnessesMisread
             \/ CountryMisread \/ BroadcastMisread)
  BY FailureStep
<1>2. \/ OnlineGet
      \/ /\ pc = "on_set" /\ cur' = cur
         /\ \/ UNCHANGED val
            \/ \E k \in StatusKey : KeyExpires(k)
  BY <1>1 DEF Next, HandlerStep, MqttReceive, MqttForward, Take, FirstStep, OnlineStep,
      OnlineExpire, OnlineSet, OnlineAddr, OnlineFull, OnlineSeen,
      OnlineDel, UnknownStep, UnknownGet, UnknownExpire,
      UnknownScard, UnknownSet, UnknownDel, UnknownSeen,
      ReachableStep, ReachableSadd, ReachableQuick, ReachableIp, ReachableNetwork,
      ReachableSeen, ReachableCountry, ReachableService, WriteGeo, AfterGeo, GeoField,
      BroadcastKeys, BroadcastStep, BroadcastPublish,
      BroadcastService, BrokerAck, KeyExpires, TimePasses, Restart, Goto,
      Finish, Lookup, vars, loop, redis
<1>3. CASE OnlineGet
  BY <1>3 DEF OnlineGet, Goto, Online, redis
<1>4. CASE pc = "on_set" /\ cur' = cur /\ UNCHANGED val
  BY <1>1, <1>4 DEF SetWhenAbsent, Online
<1>5. ASSUME pc = "on_set", cur' = cur, NEW k \in StatusKey, KeyExpires(k)
      PROVE  ~Online(cur.peer)'
  <2>1. /\ <<"online", cur.peer>> \in StatusKey
        /\ val \in [StatusKey -> Version \cup {"unknown", Null}]
    BY <1>5, ReportFacts DEF TypeOK, FreePc, StatusKey, Status
  <2> QED BY <1>1, <1>5, <2>1 DEF SetWhenAbsent, Online, KeyExpires, Del
<1> QED BY <1>2, <1>3, <1>4, <1>5

LEMMA AddrsStep == TypeOK /\ AddrsWritten /\ [Next]_vars => AddrsWritten'
<1> SUFFICES ASSUME TypeOK, AddrsWritten, [Next]_vars, pc' = "re_ips"
             PROVE  /\ todo' \subseteq cur'.addrs
                    /\ cur'.addrs \ todo' \subseteq ips'[cur'.peer]
  BY DEF AddrsWritten
<1>1. \/ ReachableQuick \/ ReachableIp
      \/ pc = "re_ips" /\ UNCHANGED <<cur, todo, ips>>
  BY DEF Next, HandlerStep, MqttReceive, MqttForward, Take, FirstStep, OnlineStep,
      OnlineGet, OnlineMisread, OnlineExpire, OnlineSet, OnlineAddr, OnlineFull,
      OnlineSeen, OnlineDel, UnknownStep, UnknownGet, UnknownMisread, UnknownExpire,
      UnknownScard, WitnessesMisread, UnknownSet, UnknownDel, UnknownSeen,
      ReachableStep, ReachableSadd, ReachableNetwork,
      ReachableSeen, ReachableCountry, CountryMisread, ReachableService, WriteGeo,
      AfterGeo, GeoField, BroadcastKeys, BroadcastStep, BroadcastPublish,
      BroadcastMisread, BroadcastService, BrokerAck, KeyExpires, TimePasses, Crash,
      Restart, Goto, Finish, Lookup, vars, loop, redis
<1>2. CASE ReachableQuick
  BY <1>2 DEF ReachableQuick
<1>3. CASE ReachableIp
  <2>1. PICK e \in todo : /\ ips' = [ips EXCEPT ![cur.peer] = @ \cup {e}]
                          /\ todo' = todo \ {e}
    BY <1>3 DEF ReachableIp
  <2>2. /\ cur' = cur /\ pc = "re_ips" /\ ips \in [Peer -> SUBSET Endpoint]
        /\ cur.peer \in Peer
    BY <1>3, ReportFacts DEF ReachableIp, TypeOK, FreePc
  <2> QED BY <2>1, <2>2 DEF AddrsWritten
<1>4. CASE pc = "re_ips" /\ UNCHANGED <<cur, todo, ips>>
  BY <1>4 DEF AddrsWritten
<1> QED BY <1>1, <1>2, <1>3, <1>4

\* The facts the mapping rests on hold in every reachable state.
THEOREM MappingInvariance == Spec => [](MarciInv /\ RegistryInv)
<1>1. Init => RegistryInv
  BY EmptyType DEF Init, RegistryInv, TornByFailure, FromInbox, SetWhenAbsent,
      AddrsWritten
<1>2. TypeOK /\ RegistryInv /\ [Next]_vars => RegistryInv'
  BY TornStep, InboxStep, AbsentStep, AddrsStep DEF RegistryInv
<1> QED BY <1>1, <1>2, TypeCorrect, Invariance, PTL DEF Spec

------------------------------------------------------------------------------
(* The mapping, by the step of the main loop *)

\* The keys with the time left, and nothing shown ahead of time.
PlainLeft == [k \in StatusKey |-> IF val[k] = Null THEN Null ELSE ttl[k]]

NamingPc == {"re_quick", "re_ips"}
RenewingPc == {"on_expire", "un_expire"}

\* A report of its kind is at hand at every step of a handler.
LEMMA AtHand ==
    ASSUME TypeOK
    PROVE  /\ pc \notin FreePc => cur # Null /\ cur \in Report /\ cur.peer \in Peer
           /\ pc \in FreePc => cur = Null
           /\ pc \in OnlinePc \ GeoField => cur.kind = "online"
           /\ pc \in UnknownPc => cur.kind = "unknown"
           /\ pc \in ReachablePc \ GeoField => cur.kind = "reachable"
           /\ cur # Null => cur.kind \in Kind
<1>1. /\ IF pc \in FreePc
         THEN cur = Null
         ELSE /\ cur # Null
              /\ cur.kind = "online" => pc \in OnlinePc
              /\ cur.kind = "unknown" => pc \in UnknownPc
              /\ cur.kind = "reachable" => pc \in ReachablePc
      /\ cur # Null => cur \in Report /\ cur.kind \in Kind /\ cur.peer \in Peer
  BY ReportFacts DEF TypeOK
<1> QED
  BY <1>1 DEF Kind, FreePc, OnlinePc, OnlineWritten, UnknownPc, ReachablePc, GeoField

\* What Registry sees of the peers.
MappedPeers ==
    /\ pc # "un_del" => WitnessesOf = reachable
    /\ pc = "un_del" => WitnessesOf = [reachable EXCEPT ![cur.peer] = {}]
    /\ pc \notin NamingPc => QuickOf = quick /\ IpsOf = ips /\ NetworkOf = network
    /\ pc \in NamingPc =>
         /\ QuickOf = [quick EXCEPT ![cur.peer] = @ \cup {IntoStr(cur.network)}]
         /\ IpsOf = [ips EXCEPT ![cur.peer] = @ \cup cur.addrs]
         /\ NetworkOf = [network EXCEPT ![cur.peer] = IntoStr(cur.network)]

LEMMA PeersMapped == ASSUME TypeOK PROVE MappedPeers
<1>1. /\ reachable \in [Peer -> SUBSET Peer] /\ quick \in [Peer -> SUBSET NetworkStrings]
      /\ ips \in [Peer -> SUBSET Endpoint] /\ network \in [Peer -> NetworkStrings \cup {""}]
  BY DEF TypeOK
<1>2. \A p \in Peer : Naming(p) <=> pc \in NamingPc /\ cur.peer = p
  BY AtHand DEF Naming, Handling, NamingPc, ReachablePc, GeoField, FreePc
<1>3. pc # "un_del" => WitnessesOf = reachable
  BY <1>1 DEF WitnessesOf
<1>4. pc = "un_del" => WitnessesOf = [reachable EXCEPT ![cur.peer] = {}]
  BY <1>1 DEF WitnessesOf
<1>5. pc \notin NamingPc => QuickOf = quick /\ IpsOf = ips /\ NetworkOf = network
  BY <1>1, <1>2 DEF QuickOf, IpsOf, NetworkOf
<1>6. pc \in NamingPc =>
         /\ QuickOf = [quick EXCEPT ![cur.peer] = @ \cup {IntoStr(cur.network)}]
         /\ IpsOf = [ips EXCEPT ![cur.peer] = @ \cup cur.addrs]
         /\ NetworkOf = [network EXCEPT ![cur.peer] = IntoStr(cur.network)]
  BY <1>1, <1>2 DEF QuickOf, IpsOf, NetworkOf
<1> QED BY <1>3, <1>4, <1>5, <1>6 DEF MappedPeers

\* What Registry sees of the keys.
Written == pc \in OnlineWritten /\ cur.kind = "online"
MappedLeft ==
    /\ ~Written /\ pc \notin RenewingPc => LeftOf = PlainLeft
    /\ Written => LeftOf = [PlainLeft EXCEPT ![<<"unknown", cur.peer>>] = Null]
    /\ pc \in RenewingPc => LeftOf =
          [PlainLeft EXCEPT ![<<"online", cur.peer>>] =
              IF val[<<"online", cur.peer>>] = Null THEN 0 ELSE @]

LEMMA LeftMapped == ASSUME TypeOK PROVE MappedLeft
<1>1. \A k \in StatusKey : Erasing(k) <=> Written /\ k = <<"unknown", cur.peer>>
  BY AtHand DEF Erasing, Written, Handling, StatusKey, OnlineWritten, FreePc, GeoField
<1>2. \A k \in StatusKey : Renewing(k) <=> pc \in RenewingPc /\ k = <<"online", cur.peer>>
  BY DEF Renewing, RenewingPc, StatusKey
<1>3. ~(Written /\ pc \in RenewingPc)
  BY DEF Written, RenewingPc, OnlineWritten, GeoField
<1>4. ASSUME ~Written, pc \notin RenewingPc PROVE LeftOf = PlainLeft
  BY <1>1, <1>2, <1>4 DEF LeftOf, PlainLeft
<1>5. ASSUME Written
      PROVE  LeftOf = [PlainLeft EXCEPT ![<<"unknown", cur.peer>>] = Null]
  BY <1>1, <1>2, <1>3, <1>5 DEF LeftOf, PlainLeft
<1>6. ASSUME pc \in RenewingPc
      PROVE  LeftOf = [PlainLeft EXCEPT ![<<"online", cur.peer>>] =
                          IF val[<<"online", cur.peer>>] = Null THEN 0 ELSE @]
  BY <1>1, <1>2, <1>3, <1>6 DEF LeftOf, PlainLeft
<1> QED BY <1>4, <1>5, <1>6 DEF MappedLeft

\* The next state is mapped in the same way.
LEMMA NextMapped == TypeOK' => MappedPeers' /\ MappedLeft'
<1>1. TypeOK => MappedPeers /\ MappedLeft
  BY PeersMapped, LeftMapped
<1> QED BY <1>1, PTL

\* A command writes or removes one key.
LEMMA PlainWrite ==
    ASSUME TypeOK, NEW k \in StatusKey, NEW v, NEW t,
           val' = [val EXCEPT ![k] = v], ttl' = [ttl EXCEPT ![k] = t]
    PROVE  PlainLeft' = [PlainLeft EXCEPT ![k] = IF v = Null THEN Null ELSE t]
<1>1. /\ val \in [StatusKey -> Version \cup {"unknown", Null}]
      /\ ttl \in [StatusKey -> Nat]
  BY DEF TypeOK
<1> QED BY <1>1 DEF PlainLeft

\* The names of networks are converted in the same way on both sides.
LEMMA SameStrings ==
    /\ \A n : R!IntoStr(n) = IntoStr(n)
    /\ \A n : R!FromString(n) = FromString(n)
    /\ R!StatusKey = StatusKey
BY DEF R!IntoStr, IntoStr, R!FromString, FromString, R!PudgeNames, PudgeNames,
      R!DevNames, DevNames, R!StatusKey, StatusKey, R!Status, Status

LEMMA SameCardinality == \A S : R!Cardinality(S) = Cardinality(S)
BY DEF R!Cardinality, Cardinality, R!IsFiniteSet, IsFiniteSet

------------------------------------------------------------------------------
(* The steps that Registry does not see *)

Busy == NamingPc \cup RenewingPc \cup {"un_del", "bc_publish"}

\* Nothing changes for Registry between two steps that show nothing ahead of
\* time, or show the same.
LEMMA Still ==
    ASSUME TypeOK, TypeOK', pc \notin Busy, pc' \notin Busy,
           UNCHANGED <<val, ttl, reachable, quick, ips, network, needs_dial>>,
           Written' <=> Written, Written => cur' = cur
    PROVE  UNCHANGED R!vars
<1>1. PlainLeft' = PlainLeft
  BY DEF PlainLeft
<1>2. LeftOf' = LeftOf
  BY <1>1, LeftMapped, NextMapped DEF MappedLeft, Busy
<1>3. /\ WitnessesOf' = WitnessesOf /\ QuickOf' = QuickOf /\ IpsOf' = IpsOf
      /\ NetworkOf' = NetworkOf
  BY PeersMapped, NextMapped DEF MappedPeers, Busy
<1>4. RoundOf' = RoundOf
  BY DEF RoundOf, Busy
<1> QED BY <1>2, <1>3, <1>4 DEF R!vars, R!peers

\* Nor when only the channels change.
LEMMA ChannelsOnly ==
    ASSUME UNCHANGED <<redis, pc, cur, todo, needs_dial>>
    PROVE  UNCHANGED R!vars
<1>1. LeftOf' = LeftOf
  BY DEF LeftOf, Erasing, Renewing, Handling, redis
<1>2. WitnessesOf' = WitnessesOf /\ RoundOf' = RoundOf
  BY DEF WitnessesOf, RoundOf, redis
<1>3. QuickOf' = QuickOf /\ IpsOf' = IpsOf /\ NetworkOf' = NetworkOf
  BY DEF QuickOf, IpsOf, NetworkOf, Naming, Handling, redis
<1> QED BY <1>1, <1>2, <1>3 DEF R!vars, R!peers

LEMMA StillOnline ==
    ASSUME TypeOK, TypeOK',
           \/ OnlineGet /\ ~Online(cur.peer)
           \/ OnlineAddr \/ OnlineFull \/ OnlineSeen \/ WriteGeo
    PROVE  UNCHANGED R!vars
<1>1. /\ cur' = cur
      /\ UNCHANGED <<val, ttl, reachable, quick, ips, network, needs_dial>>
  BY DEF OnlineGet, OnlineAddr, OnlineFull, OnlineSeen, WriteGeo, Goto, Lookup,
      redis, statusKept
<1>2. CASE OnlineGet /\ ~Online(cur.peer)
  <2>1. pc = "on_get" /\ pc' = "on_set"
    BY <1>2 DEF OnlineGet, Goto
  <2>2. pc \notin Busy /\ pc' \notin Busy /\ ~Written /\ ~Written'
    BY <2>1 DEF Busy, NamingPc, RenewingPc, Written, OnlineWritten, GeoField
  <2> QED BY <1>1, <2>2, Still
<1>3. CASE OnlineAddr \/ OnlineFull \/ OnlineSeen
  <2>1. pc \in {"on_addr", "on_full", "on_seen"} /\ pc' \in {"country", "on_full", "on_seen", "on_del"}
    BY <1>3 DEF OnlineAddr, OnlineFull, OnlineSeen, Goto, Lookup
  <2>2. pc \notin Busy /\ pc' \notin Busy /\ (Written' <=> Written)
    BY <1>1, <2>1 DEF Busy, NamingPc, RenewingPc, Written, OnlineWritten, GeoField
  <2> QED BY <1>1, <2>2, Still
<1>4. CASE WriteGeo
  <2>1. /\ pc \in GeoField
        /\ pc' \in {"city", "region", "pos"} \/ (pc' = "on_full" /\ cur.kind = "online")
             \/ (pc' = "re_service" /\ cur.kind # "online")
    BY <1>4 DEF WriteGeo, AfterGeo, GeoField
  <2>2. pc \notin Busy /\ pc' \notin Busy /\ (Written' <=> Written)
    BY <1>1, <2>1 DEF Busy, NamingPc, RenewingPc, Written, OnlineWritten, GeoField
  <2> QED BY <1>1, <2>2, Still
<1> QED BY <1>2, <1>3, <1>4

LEMMA StillOther ==
    ASSUME TypeOK, TypeOK',
           \/ \E k \in Kind : Take(k)
           \/ UnknownGet /\ ~Online(cur.peer)
           \/ UnknownScard \/ UnknownSeen
           \/ ReachableSeen \/ ReachableCountry \/ ReachableService \/ Restart
    PROVE  UNCHANGED R!vars
<1>1. UNCHANGED <<val, ttl, reachable, quick, ips, network, needs_dial>>
  BY DEF Take, UnknownGet, UnknownScard, UnknownSeen, ReachableSeen,
      ReachableCountry, ReachableService, Restart, redis, statusKept
<1>2. CASE (\E k \in Kind : Take(k)) \/ Restart
  <2>1. pc \in {"idle", "down"} /\ pc' \in {"idle", "on_get", "un_get", "re_sadd"}
    BY <1>2 DEF Take, FirstStep, Restart, Goto
  <2>2. pc \notin Busy /\ pc' \notin Busy /\ ~Written /\ ~Written'
    BY <2>1 DEF Busy, NamingPc, RenewingPc, Written, OnlineWritten, GeoField
  <2> QED BY <1>1, <2>2, Still
<1>3. CASE (UnknownGet /\ ~Online(cur.peer)) \/ UnknownScard \/ UnknownSeen
  <2>1. pc \in {"un_get", "un_scard", "un_seen"} /\ pc' \in {"un_scard", "un_set", "un_seen", "idle"}
    BY <1>3 DEF UnknownGet, UnknownScard, UnknownSeen, Goto, Finish
  <2>2. pc \notin Busy /\ pc' \notin Busy /\ ~Written /\ ~Written'
    BY <2>1 DEF Busy, NamingPc, RenewingPc, Written, OnlineWritten, GeoField
  <2> QED BY <1>1, <2>2, Still
<1>4. CASE ReachableSeen \/ ReachableCountry \/ ReachableService
  <2>1. /\ pc \in {"re_seen", "re_country", "re_service"}
        /\ pc' \in {"re_country", "country", "re_service", "idle"}
        /\ pc' = "country" => cur' = cur
    BY <1>4 DEF ReachableSeen, ReachableCountry, ReachableService, Goto, Lookup, Finish
  <2>2. cur.kind = "reachable"
    BY <2>1, AtHand DEF ReachablePc, GeoField
  <2>3. pc \notin Busy /\ pc' \notin Busy /\ ~Written /\ ~Written'
    BY <2>1, <2>2 DEF Busy, NamingPc, RenewingPc, Written, OnlineWritten, GeoField
  <2> QED BY <1>1, <2>3, Still
<1> QED BY <1>2, <1>3, <1>4

------------------------------------------------------------------------------
(* A key that a handler has seen and is about to renew *)

\* GET has found the key: nothing changes for Registry, which will show the key
\* as due if it is gone when EXPIRE comes.
LEMMA StillRenewing ==
    ASSUME TypeOK, TypeOK', (OnlineGet \/ UnknownGet) /\ Online(cur.peer)
    PROVE  UNCHANGED R!vars
<1>1. /\ pc \in {"on_get", "un_get"} /\ pc' \in RenewingPc /\ cur' = cur
      /\ UNCHANGED <<val, ttl, reachable, quick, ips, network, needs_dial>>
      /\ val[<<"online", cur.peer>>] # Null
  BY DEF OnlineGet, UnknownGet, Goto, redis, RenewingPc, Online
<1>2. PlainLeft' = PlainLeft
  BY <1>1 DEF PlainLeft
<1>3. LeftOf = PlainLeft
  BY <1>1, LeftMapped DEF MappedLeft, RenewingPc, Written, OnlineWritten, GeoField
<1>4. LeftOf' = [PlainLeft EXCEPT ![<<"online", cur.peer>>] = @]
  BY <1>1, <1>2, NextMapped DEF MappedLeft
<1>5. LeftOf' = LeftOf
  BY <1>3, <1>4 DEF PlainLeft
<1>6. /\ WitnessesOf' = WitnessesOf /\ QuickOf' = QuickOf /\ IpsOf' = IpsOf
      /\ NetworkOf' = NetworkOf
  BY <1>1, PeersMapped, NextMapped DEF MappedPeers, NamingPc, RenewingPc
<1>7. RoundOf' = RoundOf
  BY <1>1 DEF RoundOf, RenewingPc
<1> QED BY <1>1, <1>5, <1>6, <1>7 DEF R!vars, R!peers

\* What EXPIRE makes of the online key.
LEMMA RenewedKey ==
    ASSUME TypeOK, TypeOK', OnlineExpire \/ UnknownExpire
    PROVE  LET k == <<"online", cur.peer>>
           IN  /\ k \in StatusKey /\ LeftOf[k] # Null
               /\ \E t \in R!Renewed(cur.peer) :
                     PlainLeft' = [LeftOf EXCEPT ![k] = t]
<1> DEFINE k == <<"online", cur.peer>>
<1>1. /\ pc \in RenewingPc
      /\ ttl' = IF val[k] = Null THEN ttl ELSE [ttl EXCEPT ![k] = OnlineTimeout]
      /\ val' = val
  BY DEF OnlineExpire, UnknownExpire, ExpireIn, RenewingPc
<1>2. k \in StatusKey
  BY <1>1, AtHand DEF RenewingPc, FreePc, StatusKey, Status
<1> HIDE DEF k
<1>3. LeftOf = [PlainLeft EXCEPT ![k] = IF val[k] = Null THEN 0 ELSE @]
  BY <1>1, LeftMapped DEF MappedLeft, k
<1>4. /\ val \in [StatusKey -> Version \cup {"unknown", Null}]
      /\ ttl \in [StatusKey -> Nat] /\ Null \notin Nat
  BY MarciAssumption DEF TypeOK
<1>5. CASE val[k] = Null
  <2>1. LeftOf[k] = 0 /\ PlainLeft[k] = Null /\ PlainLeft' = PlainLeft
    BY <1>1, <1>2, <1>3, <1>5 DEF PlainLeft
  <2>2. PlainLeft = [LeftOf EXCEPT ![k] = Null]
    BY <1>2, <1>3, <1>5, <2>1 DEF PlainLeft
  <2>3. Null \in R!Renewed(cur.peer)
    BY <2>1 DEF R!Renewed, k
  <2>4. LeftOf[k] # Null
    BY <1>4, <2>1
  <2>5. PlainLeft' = [LeftOf EXCEPT ![k] = Null]
    BY <2>1, <2>2
  <2> QED BY <1>2, <2>3, <2>4, <2>5 DEF k
<1>6. CASE val[k] # Null
  <2>1. LeftOf = PlainLeft /\ LeftOf[k] = ttl[k]
    BY <1>2, <1>3, <1>6 DEF PlainLeft
  <2>2. PlainLeft' = [PlainLeft EXCEPT ![k] = OnlineTimeout]
    BY <1>1, <1>2, <1>4, <1>6 DEF PlainLeft
  <2>3. OnlineTimeout \in R!Renewed(cur.peer)
    BY DEF R!Renewed
  <2>4. LeftOf[k] # Null
    BY <1>2, <1>4, <2>1
  <2> QED BY <1>2, <2>1, <2>2, <2>3, <2>4 DEF k
<1> QED BY <1>5, <1>6

------------------------------------------------------------------------------
(* The steps at which a report takes effect *)

\* An online report: at EXPIRE or at SETEX, with the unknown key shown as gone.
LEMMA OnlineEffect ==
    ASSUME MarciInv, RegistryInv, TypeOK', failures = 0, OnlineExpire \/ OnlineSet
    PROVE  R!Next
<1> DEFINE p == cur.peer
           unknown == <<"unknown", p>>
<1>1. /\ TypeOK /\ pc \in {"on_expire", "on_set"} /\ pc' = "on_addr" /\ cur' = cur
      /\ UNCHANGED <<reachable, quick, ips, network, needs_dial>>
  BY DEF MarciInv, OnlineExpire, OnlineSet, Goto, peerKept
<1>2. /\ p \in Peer /\ cur.kind = "online" /\ cur # Null /\ cur \in Inbox
      /\ cur.version # Null
  BY <1>1, AtHand, ReportFacts, MarciAssumption
     DEF OnlinePc, GeoField, FreePc, RegistryInv, FromInbox
<1>3. LeftOf' = [PlainLeft' EXCEPT ![unknown] = Null]
  BY <1>1, <1>2, NextMapped DEF MappedLeft, Written, OnlineWritten
<1>4. /\ WitnessesOf' = WitnessesOf /\ QuickOf' = QuickOf /\ IpsOf' = IpsOf
      /\ NetworkOf' = NetworkOf
  BY <1>1, PeersMapped, NextMapped DEF MappedPeers, NamingPc
<1>5. RoundOf = Null /\ RoundOf' = Null
  BY <1>1 DEF RoundOf
<1>6. SUFFICES R!OnlineHandled(cur)
  BY <1>2 DEF R!Next, R!Handled
<1>7. CASE OnlineExpire
  <2>1. /\ LeftOf[<<"online", p>>] # Null
        /\ \E t \in R!Renewed(p) : PlainLeft' = [LeftOf EXCEPT ![<<"online", p>>] = t]
    BY <1>1, <1>7, RenewedKey
  <2>2. R!Online(p)
    BY <2>1 DEF R!Online
  <2>3. \E t \in R!Renewed(p) : LeftOf' =
            [LeftOf EXCEPT ![<<"online", p>>] = t, ![unknown] = Null]
    BY <1>3, <2>1
  <2> QED
    BY <1>1, <1>4, <1>5, <2>2, <2>3 DEF R!OnlineHandled, R!peers
<1>8. CASE OnlineSet
  <2> DEFINE k == <<IF cur.isEx THEN "online2" ELSE "online", p>>
  <2>1. pc = "on_set" /\ LeftOf = PlainLeft
    BY <1>1, <1>8, LeftMapped DEF MappedLeft, OnlineSet, RenewingPc, Written,
        OnlineWritten, GeoField
  <2>2. k \in StatusKey /\ <<"online", p>> \in StatusKey
    BY <1>2 DEF StatusKey, Status
  <2>3. PlainLeft' = [PlainLeft EXCEPT ![k] = OnlineTimeout]
    <3>1. val' = [val EXCEPT ![k] = cur.version] /\ ttl' = [ttl EXCEPT ![k] = OnlineTimeout]
      BY <1>8 DEF OnlineSet, SetEx
    <3> HIDE DEF k
    <3>2. PlainLeft' = [PlainLeft EXCEPT ![k] = IF cur.version = Null THEN Null
                                                ELSE OnlineTimeout]
      BY <1>1, <2>2, <3>1, PlainWrite
    <3> QED BY <1>2, <3>2
  <2>4. val[<<"online", p>>] = Null
    BY <2>1 DEF RegistryInv, SetWhenAbsent, Online
  <2>5. ~R!Online(p)
    BY <2>1, <2>2, <2>4 DEF R!Online, PlainLeft
  <2>6. LeftOf' = [LeftOf EXCEPT ![k] = OnlineTimeout, ![unknown] = Null]
    BY <1>3, <2>1, <2>3
  <2> QED
    BY <1>1, <1>4, <1>5, <2>5, <2>6 DEF R!OnlineHandled, R!peers
<1> QED BY <1>1, <1>7, <1>8

\* A report of a failed dial: at EXPIRE, or at SETEX with the witnesses shown
\* as given up.
LEMMA UnknownEffect ==
    ASSUME MarciInv, RegistryInv, TypeOK', failures = 0, UnknownExpire \/ UnknownSet
    PROVE  R!Next
<1> DEFINE p == cur.peer
<1>1. /\ TypeOK /\ pc \in {"un_expire", "un_set"} /\ pc' \in {"un_seen", "un_del"}
      /\ cur' = cur /\ UNCHANGED <<reachable, quick, ips, network, needs_dial>>
  BY DEF MarciInv, UnknownExpire, UnknownSet, Goto, peerKept
<1>2. /\ p \in Peer /\ cur.kind = "unknown" /\ cur # Null /\ cur \in Inbox
  BY <1>1, AtHand DEF UnknownPc, FreePc, RegistryInv, FromInbox
<1>3. LeftOf' = PlainLeft'
  BY <1>1, NextMapped DEF MappedLeft, Written, OnlineWritten, GeoField, RenewingPc
<1>4. /\ WitnessesOf = reachable /\ QuickOf' = QuickOf /\ IpsOf' = IpsOf
      /\ NetworkOf' = NetworkOf
  BY <1>1, PeersMapped, NextMapped DEF MappedPeers, NamingPc
<1>5. RoundOf = Null /\ RoundOf' = Null
  BY <1>1 DEF RoundOf
<1>6. SUFFICES R!UnknownHandled(cur)
  BY <1>2 DEF R!Next, R!Handled
<1>7. CASE UnknownExpire
  <2>1. /\ LeftOf[<<"online", p>>] # Null
        /\ \E t \in R!Renewed(p) : PlainLeft' = [LeftOf EXCEPT ![<<"online", p>>] = t]
    BY <1>1, <1>7, RenewedKey
  <2>2. R!Online(p)
    BY <2>1 DEF R!Online
  <2>3. pc' = "un_seen"
    BY <1>7 DEF UnknownExpire, Goto
  <2>4. WitnessesOf' = WitnessesOf
    BY <1>1, <1>4, <2>3, NextMapped DEF MappedPeers
  <2> QED
    BY <1>1, <1>3, <1>4, <1>5, <2>1, <2>2, <2>4 DEF R!UnknownHandled
<1>8. CASE UnknownSet
  <2> DEFINE k == <<"unknown", p>>
  <2>1. pc = "un_set" /\ pc' = "un_del" /\ LeftOf = PlainLeft
    BY <1>1, <1>8, LeftMapped DEF MappedLeft, UnknownSet, RenewingPc, Written,
        OnlineWritten, GeoField, Goto
  <2>2. k \in StatusKey /\ <<"online", p>> \in StatusKey /\ "unknown" # Null
    BY <1>2, MarciAssumption DEF StatusKey, Status
  <2>3. LeftOf' = [LeftOf EXCEPT ![k] = UnknownTimeout]
    BY <1>1, <1>3, <1>8, <2>1, <2>2, PlainWrite DEF UnknownSet, SetEx
  <2>4. val[<<"online", p>>] = Null
    BY <2>1 DEF RegistryInv, TornByFailure, MarciInv, StatusInv, StatusKnown, Online
  <2>5. ~R!Online(p)
    BY <2>1, <2>2, <2>4 DEF R!Online, PlainLeft
  <2>6. Cardinality(WitnessesOf[p]) >= WitnessThreshold
    BY <1>4, <2>1 DEF MarciInv, Upgraded
  <2>7. WitnessesOf' = [WitnessesOf EXCEPT ![p] = {}]
    BY <1>1, <1>4, <2>1, NextMapped DEF MappedPeers
  <2> QED
    BY <1>1, <1>4, <1>5, <2>3, <2>5, <2>6, <2>7, SameCardinality DEF R!UnknownHandled
<1> QED BY <1>1, <1>7, <1>8

\* A report of a peer that was named: at SADD, with the rest shown as written.
LEMMA ReachableEffect ==
    ASSUME TypeOK, FromInbox, TypeOK', ReachableSadd
    PROVE  R!Next
<1> DEFINE p == cur.peer
<1>1. /\ pc = "re_sadd" /\ pc' = "re_quick" /\ cur' = cur
      /\ UNCHANGED <<val, ttl, quick, ips, network, needs_dial>>
      /\ reachable' = [reachable EXCEPT ![p] = @ \cup {cur.from}]
  BY DEF ReachableSadd, Goto, statusKept
<1>2. /\ p \in Peer /\ cur.kind = "reachable" /\ cur # Null /\ cur \in Inbox
  BY <1>1, AtHand DEF ReachablePc, GeoField, FreePc, FromInbox
<1>3. LeftOf' = LeftOf
  <2>1. PlainLeft' = PlainLeft
    BY <1>1 DEF PlainLeft
  <2>2. ~Written /\ ~Written' /\ pc \notin RenewingPc /\ pc' \notin RenewingPc
    BY <1>1 DEF Written, OnlineWritten, GeoField, RenewingPc
  <2> QED BY <2>1, <2>2, LeftMapped, NextMapped DEF MappedLeft
<1>4. /\ WitnessesOf = reachable /\ WitnessesOf' = reachable'
      /\ QuickOf = quick /\ IpsOf = ips /\ NetworkOf = network
      /\ QuickOf' = [quick EXCEPT ![p] = @ \cup {IntoStr(cur.network)}]
      /\ IpsOf' = [ips EXCEPT ![p] = @ \cup cur.addrs]
      /\ NetworkOf' = [network EXCEPT ![p] = IntoStr(cur.network)]
  BY <1>1, PeersMapped, NextMapped DEF MappedPeers, NamingPc
<1>5. RoundOf = Null /\ RoundOf' = Null
  BY <1>1 DEF RoundOf
<1>6. R!ReachableHandled(cur)
  BY <1>1, <1>3, <1>4, <1>5, SameStrings DEF R!ReachableHandled
<1> QED BY <1>2, <1>6 DEF R!Next, R!Handled

------------------------------------------------------------------------------
(* The commands that follow were shown as done *)

LEMMA StillDel ==
    ASSUME TypeOK, TypeOK', OnlineDel \/ UnknownDel
    PROVE  UNCHANGED R!vars
<1> DEFINE p == cur.peer
<1>1. CASE OnlineDel
  <2>1. /\ pc = "on_del" /\ pc' = "idle"
        /\ UNCHANGED <<reachable, quick, ips, network, needs_dial>>
        /\ val' = [val EXCEPT ![<<"unknown", p>>] = Null]
        /\ ttl' = [ttl EXCEPT ![<<"unknown", p>>] = 0]
    BY <1>1 DEF OnlineDel, Del, Finish, peerKept
  <2>2. cur.kind = "online" /\ <<"unknown", p>> \in StatusKey
    BY <2>1, AtHand DEF OnlinePc, OnlineWritten, GeoField, FreePc, StatusKey, Status
  <2>3. PlainLeft' = [PlainLeft EXCEPT ![<<"unknown", p>>] = Null]
    BY <2>1, <2>2, PlainWrite
  <2>4. LeftOf = [PlainLeft EXCEPT ![<<"unknown", p>>] = Null]
    BY <2>1, <2>2, LeftMapped DEF MappedLeft, Written, OnlineWritten
  <2>5. LeftOf' = PlainLeft'
    BY <2>1, NextMapped DEF MappedLeft, Written, OnlineWritten, GeoField, RenewingPc
  <2>6. /\ WitnessesOf' = WitnessesOf /\ QuickOf' = QuickOf /\ IpsOf' = IpsOf
        /\ NetworkOf' = NetworkOf
    BY <2>1, PeersMapped, NextMapped DEF MappedPeers, NamingPc
  <2>7. RoundOf' = RoundOf
    BY <2>1 DEF RoundOf
  <2> QED BY <2>1, <2>3, <2>4, <2>5, <2>6, <2>7 DEF R!vars, R!peers
<1>2. CASE UnknownDel
  <2>1. /\ pc = "un_del" /\ pc' = "un_seen" /\ cur' = cur
        /\ UNCHANGED <<val, ttl, quick, ips, network, needs_dial>>
        /\ reachable' = [reachable EXCEPT ![p] = {}]
    BY <1>2 DEF UnknownDel, Goto, statusKept
  <2>2. PlainLeft' = PlainLeft
    BY <2>1 DEF PlainLeft
  <2>3. LeftOf' = LeftOf
    BY <2>1, <2>2, LeftMapped, NextMapped DEF MappedLeft, Written, OnlineWritten,
        GeoField, RenewingPc
  <2>4. /\ WitnessesOf' = WitnessesOf /\ QuickOf' = QuickOf /\ IpsOf' = IpsOf
        /\ NetworkOf' = NetworkOf
    BY <2>1, PeersMapped, NextMapped DEF MappedPeers, NamingPc
  <2>5. RoundOf' = RoundOf
    BY <2>1 DEF RoundOf
  <2> QED BY <2>1, <2>3, <2>4, <2>5 DEF R!vars, R!peers
<1> QED BY <1>1, <1>2

LEMMA StillNaming ==
    ASSUME MarciInv, RegistryInv, TypeOK',
           ReachableQuick \/ ReachableIp \/ ReachableNetwork
    PROVE  UNCHANGED R!vars
<1> DEFINE p == cur.peer
           n == IntoStr(cur.network)
<1>1. /\ TypeOK /\ pc \in NamingPc /\ cur' = cur /\ pc' \in {"re_ips", "re_seen"}
      /\ UNCHANGED <<val, ttl, reachable, needs_dial>>
  BY DEF MarciInv, ReachableQuick, ReachableIp, ReachableNetwork, Goto, statusKept,
      NamingPc
<1>2. /\ p \in Peer /\ cur.addrs \in SUBSET Endpoint
      /\ quick \in [Peer -> SUBSET NetworkStrings]
      /\ ips \in [Peer -> SUBSET Endpoint] /\ network \in [Peer -> NetworkStrings \cup {""}]
  BY <1>1, AtHand, ReportFacts DEF TypeOK, NamingPc, FreePc, ReachablePc, GeoField
<1>3. LeftOf' = LeftOf
  <2>1. PlainLeft' = PlainLeft
    BY <1>1 DEF PlainLeft
  <2> QED
    BY <1>1, <2>1, LeftMapped, NextMapped DEF MappedLeft, Written, OnlineWritten,
        GeoField, RenewingPc, NamingPc
<1>4. WitnessesOf' = WitnessesOf /\ RoundOf' = RoundOf
  BY <1>1, PeersMapped, NextMapped DEF MappedPeers, NamingPc, RoundOf
<1>5. /\ QuickOf = [quick EXCEPT ![p] = @ \cup {n}]
      /\ IpsOf = [ips EXCEPT ![p] = @ \cup cur.addrs]
      /\ NetworkOf = [network EXCEPT ![p] = n]
  BY <1>1, PeersMapped DEF MappedPeers
<1>6. CASE ReachableQuick
  <2>1. /\ pc' = "re_ips" /\ UNCHANGED <<ips, network>>
        /\ quick' = [quick EXCEPT ![p] = @ \cup {n}]
    BY <1>6 DEF ReachableQuick
  <2>2. /\ QuickOf' = [quick' EXCEPT ![p] = @ \cup {n}]
        /\ IpsOf' = IpsOf /\ NetworkOf' = NetworkOf
    BY <1>1, <1>5, <2>1, NextMapped DEF MappedPeers, NamingPc
  <2>3. QuickOf' = QuickOf
    BY <1>2, <1>5, <2>1, <2>2
  <2> QED BY <1>1, <1>3, <1>4, <2>2, <2>3 DEF R!vars, R!peers
<1>7. CASE ReachableIp
  <2>1. /\ pc = "re_ips" /\ pc' = "re_ips" /\ UNCHANGED <<quick, network>>
    BY <1>7 DEF ReachableIp
  <2>2. PICK e \in todo : ips' = [ips EXCEPT ![p] = @ \cup {e}]
    BY <1>7 DEF ReachableIp
  <2>3. e \in cur.addrs
    BY <2>1, <2>2 DEF RegistryInv, AddrsWritten
  <2>4. /\ IpsOf' = [ips' EXCEPT ![p] = @ \cup cur.addrs]
        /\ QuickOf' = QuickOf /\ NetworkOf' = NetworkOf
    BY <1>1, <1>5, <2>1, NextMapped DEF MappedPeers, NamingPc
  <2>5. IpsOf' = IpsOf
    BY <1>2, <1>5, <2>2, <2>3, <2>4
  <2> QED BY <1>1, <1>3, <1>4, <2>4, <2>5 DEF R!vars, R!peers
<1>8. CASE ReachableNetwork
  <2>1. /\ pc = "re_ips" /\ todo = {} /\ pc' = "re_seen" /\ UNCHANGED <<quick, ips>>
        /\ network' = [network EXCEPT ![p] = n]
    BY <1>8 DEF ReachableNetwork, Goto
  <2>2. cur.addrs \subseteq ips[p] /\ n \in quick[p]
    BY <2>1 DEF RegistryInv, AddrsWritten, MarciInv, NetworkIndexed
  <2>3. IpsOf' = ips /\ QuickOf' = quick /\ NetworkOf' = network'
    BY <2>1, NextMapped DEF MappedPeers, NamingPc
  <2>4. IpsOf' = IpsOf /\ QuickOf' = QuickOf /\ NetworkOf' = NetworkOf
    BY <1>2, <1>5, <2>1, <2>2, <2>3
  <2> QED BY <1>1, <1>3, <1>4, <2>4 DEF R!vars, R!peers
<1> QED BY <1>6, <1>7, <1>8

------------------------------------------------------------------------------
(* Keys that expire, and the timer *)

LEMMA ExpiryEffect ==
    ASSUME TypeOK, TypeOK', NEW k \in StatusKey, KeyExpires(k)
    PROVE  R!Next \/ UNCHANGED R!vars
<1> DEFINE p == cur.peer
<1>1. /\ val[k] # Null /\ ttl[k] = 0
      /\ val' = [val EXCEPT ![k] = Null] /\ ttl' = [ttl EXCEPT ![k] = 0]
      /\ UNCHANGED <<reachable, quick, ips, network, pc, cur, todo, needs_dial>>
      /\ val \in [StatusKey -> Version \cup {"unknown", Null}]
  BY DEF KeyExpires, Del, loop, TypeOK
<1>2. PlainLeft' = [PlainLeft EXCEPT ![k] = Null] /\ PlainLeft[k] = 0
  BY <1>1, PlainWrite DEF PlainLeft
<1>3. /\ WitnessesOf' = WitnessesOf /\ QuickOf' = QuickOf /\ IpsOf' = IpsOf
      /\ NetworkOf' = NetworkOf /\ RoundOf' = RoundOf
  BY <1>1 DEF WitnessesOf, QuickOf, IpsOf, NetworkOf, RoundOf, Naming, Handling
<1>4. /\ pc' = pc /\ cur' = cur /\ (Written' <=> Written)
  BY <1>1 DEF Written
<1>5. SUFFICES LeftOf' = LeftOf \/ (LeftOf[k] = 0 /\ LeftOf' = [LeftOf EXCEPT ![k] = Null])
  <2>1. CASE LeftOf' = LeftOf
    BY <1>1, <1>3, <2>1 DEF R!vars, R!peers
  <2>2. CASE LeftOf[k] = 0 /\ LeftOf' = [LeftOf EXCEPT ![k] = Null]
    BY <1>1, <1>3, <2>2, SameStrings DEF R!Next, R!KeyExpires, R!peers
  <2> QED BY <1>5, <2>1, <2>2
<1>6. CASE Written
  <2> DEFINE u == <<"unknown", p>>
  <2>1. /\ LeftOf = [PlainLeft EXCEPT ![u] = Null]
        /\ LeftOf' = [PlainLeft' EXCEPT ![u] = Null]
    BY <1>4, <1>6, LeftMapped, NextMapped DEF MappedLeft
  <2> HIDE DEF u
  <2> QED BY <1>2, <2>1 DEF PlainLeft
<1>7. CASE pc \in RenewingPc
  <2> DEFINE o == <<"online", p>>
  <2>1. /\ LeftOf = [PlainLeft EXCEPT ![o] = IF val[o] = Null THEN 0 ELSE @]
        /\ LeftOf' = [PlainLeft' EXCEPT ![o] = IF val'[o] = Null THEN 0 ELSE @]
    BY <1>4, <1>7, LeftMapped, NextMapped DEF MappedLeft
  <2>2. o \in StatusKey
    BY <1>7, AtHand DEF RenewingPc, FreePc, StatusKey, Status
  <2> HIDE DEF o
  <2>3. CASE k = o
    <3>1. LeftOf = PlainLeft /\ LeftOf' = [PlainLeft' EXCEPT ![k] = 0]
      BY <1>1, <2>1, <2>3 DEF PlainLeft
    <3> QED BY <1>2, <3>1 DEF PlainLeft
  <2>4. CASE k # o
    <3>1. val'[o] = val[o] /\ PlainLeft'[o] = PlainLeft[o]
      BY <1>1, <1>2, <2>2, <2>4 DEF PlainLeft
    <3> DEFINE x == IF val[o] = Null THEN 0 ELSE PlainLeft[o]
    <3>2. /\ LeftOf = [PlainLeft EXCEPT ![o] = x]
          /\ LeftOf' = [PlainLeft' EXCEPT ![o] = x]
      BY <2>1, <3>1
    <3> HIDE DEF x
    <3>3. PlainLeft = [j \in StatusKey |-> PlainLeft[j]]
      BY DEF PlainLeft
    <3>4. LeftOf[k] = 0
      BY <1>2, <2>4, <3>2, <3>3
    <3>5. LeftOf' = [LeftOf EXCEPT ![k] = Null]
      BY <1>2, <2>2, <2>4, <3>2, <3>3
    <3> QED BY <3>4, <3>5
  <2> QED BY <2>3, <2>4
<1>8. CASE ~Written /\ pc \notin RenewingPc
  BY <1>2, <1>4, <1>8, LeftMapped, NextMapped DEF MappedLeft
<1> QED BY <1>6, <1>7, <1>8

LEMMA TimeEffect ==
    ASSUME TypeOK, TypeOK', TimePasses
    PROVE  R!Next
<1>1. /\ pc \in FreePc /\ pc' = pc
      /\ \A k \in StatusKey : val[k] # Null => ttl[k] > 0
      /\ \E k \in StatusKey : val[k] # Null
      /\ ttl' = [k \in StatusKey |-> IF val[k] = Null THEN 0 ELSE ttl[k] - 1]
      /\ UNCHANGED <<val, reachable, quick, ips, network, cur, todo, needs_dial>>
      /\ ttl \in [StatusKey -> Nat] /\ Null \notin Nat
  BY MarciAssumption DEF TimePasses, FreePc, loop, TypeOK
<1>2. LeftOf = PlainLeft /\ LeftOf' = PlainLeft'
  BY <1>1, LeftMapped, NextMapped DEF MappedLeft, Written, OnlineWritten, GeoField,
      RenewingPc, FreePc
<1>3. /\ WitnessesOf' = WitnessesOf /\ QuickOf' = QuickOf /\ IpsOf' = IpsOf
      /\ NetworkOf' = NetworkOf /\ RoundOf' = RoundOf
  BY <1>1 DEF WitnessesOf, QuickOf, IpsOf, NetworkOf, RoundOf, Naming, Handling
<1>4. \A k \in StatusKey : LeftOf[k] # 0 /\ (LeftOf[k] # Null <=> val[k] # Null)
  <2> SUFFICES ASSUME NEW k \in StatusKey
               PROVE  PlainLeft[k] # 0 /\ (PlainLeft[k] # Null <=> val[k] # Null)
    BY <1>2
  <2>1. ttl[k] \in Nat
    BY <1>1
  <2> QED BY <1>1, <2>1 DEF PlainLeft
<1>5. LeftOf' = [k \in StatusKey |-> IF LeftOf[k] = Null THEN Null ELSE LeftOf[k] - 1]
  <2>1. \A k \in StatusKey : (IF val'[k] = Null THEN Null ELSE ttl'[k]) =
           (IF LeftOf[k] = Null THEN Null ELSE LeftOf[k] - 1)
    BY <1>1, <1>2, <1>4 DEF PlainLeft
  <2> QED BY <1>2, <2>1 DEF PlainLeft
<1>6. R!TimePasses
  BY <1>1, <1>3, <1>4, <1>5, SameStrings DEF R!TimePasses, R!peers
<1> QED BY <1>6 DEF R!Next

LEMMA TimerEffect ==
    ASSUME TypeOK, TypeOK', BroadcastKeys \/ BroadcastPublish \/ BroadcastService
    PROVE  R!Next
<1>1. /\ pc \in {"idle", "bc_publish"} /\ pc' \in {"idle", "bc_publish"}
      /\ UNCHANGED <<val, ttl, reachable, quick, ips, network>>
  BY DEF BroadcastKeys, BroadcastPublish, BroadcastService, Goto, redis, statusKept
<1>2. LeftOf' = LeftOf
  <2>1. PlainLeft' = PlainLeft
    BY <1>1 DEF PlainLeft
  <2> QED
    BY <1>1, <2>1, LeftMapped, NextMapped DEF MappedLeft, Written, OnlineWritten,
        GeoField, RenewingPc
<1>3. /\ WitnessesOf = reachable /\ QuickOf = quick /\ IpsOf = ips /\ NetworkOf = network
      /\ WitnessesOf' = reachable /\ QuickOf' = quick /\ IpsOf' = ips
      /\ NetworkOf' = network
  BY <1>1, PeersMapped, NextMapped DEF MappedPeers, NamingPc
<1>4. CASE BroadcastKeys
  <2>1. RoundOf = Null /\ RoundOf' = {p \in Peer : reachable[p] # {}} /\ needs_dial' = needs_dial
    BY <1>4 DEF BroadcastKeys, RoundOf
  <2> QED
    BY <1>2, <1>3, <2>1 DEF R!Next, R!RoundBegins, R!peers
<1>5. CASE BroadcastPublish
  <2>1. /\ RoundOf = todo /\ RoundOf' = todo' /\ needs_dial = Null
        /\ \E p \in todo :
              /\ needs_dial' = [peer |-> p, addrs |-> ips[p],
                                network |-> FromString(network[p])]
              /\ todo' = todo \ {p}
    BY <1>5 DEF BroadcastPublish, RoundOf
  <2>2. todo # Null
    BY <1>5, MarciAssumption DEF TypeOK, BroadcastPublish
  <2> QED
    BY <1>2, <1>3, <2>1, <2>2, SameStrings DEF R!Next, R!RoundStep, R!RoundPublish, R!peers
<1>6. CASE BroadcastService
  <2>1. RoundOf = {} /\ RoundOf' = Null /\ needs_dial = Null /\ needs_dial' = needs_dial
    BY <1>6 DEF BroadcastService, RoundOf, Goto
  <2> QED
    BY <1>2, <1>3, <2>1 DEF R!Next, R!RoundStep, R!RoundEnds, R!peers
<1> QED BY <1>4, <1>5, <1>6

LEMMA AckEffect == ASSUME BrokerAck PROVE R!Next
<1>1. /\ needs_dial # Null /\ needs_dial' = Null
      /\ UNCHANGED <<val, ttl, reachable, quick, ips, network, pc, cur, todo>>
  BY DEF BrokerAck, redis, loop
<1>2. LeftOf' = LeftOf
  BY <1>1 DEF LeftOf, Erasing, Renewing, Handling
<1>3. /\ WitnessesOf' = WitnessesOf /\ QuickOf' = QuickOf /\ IpsOf' = IpsOf
      /\ NetworkOf' = NetworkOf /\ RoundOf' = RoundOf
  BY <1>1 DEF WitnessesOf, QuickOf, IpsOf, NetworkOf, RoundOf, Naming, Handling
<1>4. R!BrokerAck
  BY <1>1, <1>2, <1>3 DEF R!BrokerAck, R!peers
<1> QED BY <1>4 DEF R!Next

------------------------------------------------------------------------------

\* Until a failure, every step of marci is a step of Registry or unseen by it.
LEMMA RegistrySimulation ==
    ASSUME MarciInv, RegistryInv, TypeOK', [Next]_vars, failures' = 0
    PROVE  R!Next \/ UNCHANGED R!vars
<1>1. /\ TypeOK /\ failures = 0
      /\ ~(Crash \/ OnlineMisread \/ UnknownMisread \/ WitnessesMisread
             \/ CountryMisread \/ BroadcastMisread)
  BY FailureStep DEF MarciInv
<1>2. CASE (\E m \in Inbox : MqttReceive(m)) \/ MqttForward \/ UNCHANGED vars
  BY <1>2, ChannelsOnly DEF MqttReceive, MqttForward, vars, loop
<1>3. CASE OnlineStep
  BY <1>1, <1>3, StillOnline, StillRenewing, StillDel, OnlineEffect DEF OnlineStep
<1>4. CASE UnknownStep
  BY <1>1, <1>4, StillOther, StillRenewing, StillDel, UnknownEffect DEF UnknownStep
<1>5. CASE ReachableStep
  BY <1>1, <1>5, StillOther, StillNaming, ReachableEffect DEF ReachableStep, RegistryInv
<1>6. CASE WriteGeo
  BY <1>1, <1>6, StillOnline
<1>7. CASE (\E k \in Kind : Take(k)) \/ Restart
  BY <1>1, <1>7, StillOther
<1>8. CASE (\E k \in StatusKey : KeyExpires(k)) \/ TimePasses
  BY <1>1, <1>8, ExpiryEffect, TimeEffect
<1>9. CASE BroadcastKeys \/ BroadcastStep \/ BrokerAck
  BY <1>1, <1>9, TimerEffect, AckEffect DEF BroadcastStep
<1> QED
  BY <1>1, <1>2, <1>3, <1>4, <1>5, <1>6, <1>7, <1>8, <1>9 DEF Next, HandlerStep

\* Until a failure happens, the control centre handles one report at a time, as
\* Registry says, although each report takes several commands between which
\* keys expire, the query service reads and a publish is waited for.
THEOREM RegistryRefinement == Spec => ImplementsRegistry
<1>1. Init => R!Init
  <2> SUFFICES ASSUME Init PROVE R!Init
    OBVIOUS
  <2>1. LeftOf = [k \in StatusKey |-> Null]
    BY DEF Init, LeftOf, Erasing, Renewing, Handling
  <2>2. WitnessesOf = [p \in Peer |-> {}] /\ RoundOf = Null
    BY DEF Init, WitnessesOf, RoundOf
  <2>3. /\ QuickOf = [p \in Peer |-> {}] /\ IpsOf = [p \in Peer |-> {}]
        /\ NetworkOf = [p \in Peer |-> ""]
    BY DEF Init, QuickOf, IpsOf, NetworkOf, Naming, Handling
  <2> QED BY <2>1, <2>2, <2>3, SameStrings DEF Init, R!Init
<1>2. MarciInv /\ RegistryInv /\ [Next]_vars => [failures' = 0 => R!Next]_(R!vars)
  <2>1. MarciInv /\ [Next]_vars => TypeOK'
    BY TypeStep DEF MarciInv
  <2> QED BY <2>1, RegistrySimulation
<1> QED
  BY <1>1, <1>2, MappingInvariance, PTL DEF Spec, ImplementsRegistry
==============================================================================
