----------------------------- MODULE MarciProofs -----------------------------
(***************************************************************************)
(* Proofs about Marci, for every set of peers, every capacity, threshold   *)
(* and timeout, and any number of failures.                                *)
(***************************************************************************)
EXTENDS Marci, TLAPS

(* What each step of a handler knows from the steps before it.             *)

\* No key of the peer can be set by anybody else: what GET saw absent stays
\* absent unless GET failed, and a refresh of a peer that is also unknown
\* follows a failure.
StatusKnown ==
    /\ pc \in {"un_scard", "un_set"} =>
          ~Online(cur.peer) \/ <<"online", cur.peer>> \in torn
    /\ pc = "on_expire" /\ Unknown(cur.peer) => <<"online", cur.peer>> \in torn

\* Before the unknown key is deleted there is an online key just written.
UnknownReplaced ==
    cur # Null /\ cur.kind = "online" /\ pc \in OnlineWritten
        /\ Unknown(cur.peer) =>
            \/ <<"online", cur.peer>> \in torn
            \/ \E s \in {"online", "online2"} :
                  val[<<s, cur.peer>>] # Null /\ ttl[<<s, cur.peer>>] > 0

\* Before the witnesses are deleted the unknown key has just been written.
Upgraded ==
    /\ pc \in {"un_set", "un_del"} =>
          Cardinality(reachable[cur.peer]) >= WitnessThreshold
    /\ pc = "un_del" => Unknown(cur.peer) /\ ttl[<<"unknown", cur.peer>>] > 0

\* The network key agrees with the index, and a peer with witnesses has one
\* unless its reachable handler is not so far or was cut short.
NetworkIndexed ==
    /\ \A p \in Peer : network[p] # "" => network[p] \in quick[p]
    /\ pc = "re_ips" => IntoStr(cur.network) \in quick[cur.peer]
    /\ cur # Null /\ cur.kind = "reachable"
          /\ pc \notin {"re_sadd", "re_quick", "re_ips"}
             => network[cur.peer] # ""
    /\ \A p \in Peer : reachable[p] # {} =>
          \/ network[p] # ""
          \/ <<"reachable", p>> \in torn
          \/ Handling("reachable", p) /\ pc \in {"re_quick", "re_ips"}
    /\ pc = "bc_publish" => \A p \in todo : reachable[p] # {}

StatusInv == MapExclusive /\ StatusKnown /\ UnknownReplaced
MarciInv == TypeOK /\ StatusInv /\ Upgraded /\ NetworkIndexed

------------------------------------------------------------------------------
(* Lemmas on the data *)

\* Converting a network to its string and back gives the network again.
LEMMA FromIntoStr ==
    ASSUME NEW n \in Networks
    PROVE  FromString(IntoStr(n)) = n
BY DEF Networks, FromString, IntoStr, PudgeNames, DevNames

\* Whatever a network key holds, it is converted to a network.
LEMMA FromStringType ==
    ASSUME NEW s
    PROVE  FromString(s) \in Networks
BY DEF FromString, Networks

\* The string of a network is one that the keys of Redis can hold.
LEMMA IntoStrType ==
    ASSUME NEW n \in Networks
    PROVE  IntoStr(n) \in NetworkStrings /\ IntoStr(n) # ""
BY DEF NetworkStrings, IntoStr, Networks

\* What the handlers read of a report has the type they expect.
LEMMA ReportFacts ==
    ASSUME NEW m \in Report
    PROVE  /\ m.kind \in Kind
           /\ m.peer \in Peer
           /\ m # Null
           /\ m.kind = "online" => m.version \in Version
           /\ m.kind = "reachable" => /\ m.from \in Peer
                                      /\ m.addrs \in SUBSET Endpoint
                                      /\ m.network \in Networks
BY MarciAssumption DEF Report, OnlineReport, UnknownReport, ReachableReport, Kind

\* A report appended to a channel leaves a channel of such reports.
LEMMA AppendType ==
    ASSUME NEW S, NEW q \in Seq(S), NEW e \in S
    PROVE  Append(q, e) \in Seq(S)
OBVIOUS

\* So does taking the first report from it, which is one of these reports.
LEMMA HeadTailType ==
    ASSUME NEW S, NEW q \in Seq(S), q # <<>>
    PROVE  Head(q) \in S /\ Tail(q) \in Seq(S)
OBVIOUS

\* A channel starts, and starts again after a failure, without reports.
LEMMA EmptyType ==
    ASSUME NEW S
    PROVE  <<>> \in Seq(S)
OBVIOUS

\* What is found out about an address is a set of fields of a location.
LEMMA PlaceType == \A place \in Places : place \in SUBSET GeoField
BY MarciAssumption

\* The failures are counted in Nat.
LEMMA MisreadType == TypeOK /\ Misread => failures' \in Nat
<1> SUFFICES ASSUME TypeOK, Misread PROVE failures' \in Nat
  OBVIOUS
<1>1. failures \in Nat /\ failures' = failures + 1
  BY DEF TypeOK, Misread
<1> QED BY <1>1

------------------------------------------------------------------------------
(* Type correctness *)

\* Every step keeps the types, including that a handler at one of its steps
\* has a report of its own kind at hand.
LEMMA TypeStep == TypeOK /\ [Next]_vars => TypeOK'
<1> SUFFICES ASSUME TypeOK, [Next]_vars PROVE TypeOK'
  OBVIOUS
<1> USE DEF TypeOK
<1>1. ASSUME cur # Null
      PROVE  /\ cur \in Report /\ cur.kind \in Kind /\ cur.peer \in Peer
             /\ cur.kind = "online" => cur.version \in Version
             /\ cur.kind = "reachable" => /\ cur.from \in Peer
                                          /\ cur.addrs \in SUBSET Endpoint
                                          /\ cur.network \in Networks
  BY <1>1, ReportFacts
<1>2. ASSUME NEW m \in Inbox, MqttReceive(m) PROVE TypeOK'
  BY <1>2, MarciAssumption DEF MqttReceive, redis, queues, loop, history,
        statusKept, peerKept
<1>3. CASE MqttForward
  <2>1. held \in Report /\ held.kind \in Kind /\ held \in ReportOf(held.kind)
    BY <1>3, ReportFacts DEF MqttForward, ReportOf
  <2>2. rx' \in [Kind -> Seq(Report)]
    BY <1>3, <2>1, AppendType DEF MqttForward
  <2>3. \A k \in Kind : rx'[k] \in Seq(ReportOf(k))
    BY <1>3, <2>1, AppendType DEF MqttForward
  <2> QED BY <1>3, <2>2, <2>3 DEF MqttForward, redis, loop, history
<1>4. ASSUME NEW k \in Kind, Take(k) PROVE TypeOK'
  <2>1. Head(rx[k]) \in ReportOf(k) /\ Tail(rx[k]) \in Seq(ReportOf(k))
    BY <1>4, HeadTailType DEF Take
  <2>2. Tail(rx[k]) \in Seq(Report)
    BY <1>4, HeadTailType DEF Take
  <2>3. rx' \in [Kind -> Seq(Report)] /\ \A j \in Kind : rx'[j] \in Seq(ReportOf(j))
    BY <1>4, <2>1, <2>2 DEF Take
  <2>4. cur' \in Report /\ cur'.kind = k /\ cur' # Null
    BY <1>4, <2>1, ReportFacts DEF Take, ReportOf
  <2> QED
    BY <1>4, <2>3, <2>4
    DEF Take, FirstStep, Kind, redis, history, Step, FreePc, OnlinePc,
        UnknownPc, ReachablePc
<1>5. CASE WriteGeo
  <2>1. /\ pc \in GeoField /\ pc' \in Step \ FreePc
        /\ pc' \notin {"bc_publish", "re_ips"}
        /\ cur.kind = "online" => pc' \in OnlinePc
        /\ cur.kind = "unknown" => pc' \in UnknownPc
        /\ cur.kind = "reachable" => pc' \in ReachablePc
    <3>1. /\ pc = "country" => pc' = "city"
          /\ pc = "city" => pc' = "region"
          /\ pc = "region" => pc' = "pos"
          /\ pc = "pos" /\ cur.kind = "online" => pc' = "on_full"
          /\ pc = "pos" /\ cur.kind # "online" => pc' = "re_service"
      BY <1>5 DEF WriteGeo, AfterGeo, GeoField
    <3> QED
      BY <1>5, <1>1, <3>1
      DEF WriteGeo, Kind, Step, FreePc, OnlinePc, OnlineWritten, UnknownPc,
          ReachablePc, GeoField
  <2>2. cur # Null
    BY <1>5 DEF WriteGeo, GeoField, FreePc
  <2>3. info' \in [Peer -> SUBSET Field]
    BY <1>5, <1>1, <2>1, <2>2 DEF WriteGeo, Field
  <2> QED
    BY <1>5, <2>1, <2>2, <2>3
    DEF WriteGeo, queues, history, statusKept
<1>6. CASE OnlineGet
  BY <1>6, <1>1 DEF OnlineGet, Goto, Kind, Step, FreePc, OnlinePc,
        OnlineWritten, UnknownPc, ReachablePc, GeoField, redis, queues, loop,
        history, statusKept, peerKept
<1>7. CASE OnlineExpire
  BY <1>7, <1>1, MarciAssumption DEF OnlineExpire, ExpireIn, Goto, Kind,
        StatusKey, Status, Step, FreePc, OnlinePc, OnlineWritten, UnknownPc,
        ReachablePc, GeoField, redis, queues, loop, history, statusKept,
        peerKept
<1>8. CASE OnlineSet
  BY <1>8, <1>1, MarciAssumption DEF OnlineSet, SetEx, Goto, Kind, StatusKey,
        Status, Step, FreePc, OnlinePc, OnlineWritten, UnknownPc, ReachablePc,
        GeoField, redis, queues, loop, history, statusKept, peerKept
<1>9. CASE OnlineAddr
  <2>1. geo' \in SUBSET GeoField
    BY <1>9, PlaceType DEF OnlineAddr, Lookup, Goto
  <2> QED
    BY <1>9, <1>1, <2>1 DEF OnlineAddr, Lookup, Goto, Kind, Step, FreePc,
        OnlinePc, OnlineWritten, UnknownPc, ReachablePc, GeoField, redis,
        queues, loop, history, statusKept, peerKept
<1>10. CASE OnlineFull
  BY <1>10, <1>1 DEF OnlineFull, SetField, Field, Goto, Kind, Step, FreePc,
        OnlinePc, OnlineWritten, UnknownPc, ReachablePc, GeoField, redis,
        queues, loop, history, statusKept, peerKept
<1>11. CASE OnlineSeen
  BY <1>11, <1>1 DEF OnlineSeen, SetField, Field, Goto, Kind, Step, FreePc,
        OnlinePc, OnlineWritten, UnknownPc, ReachablePc, GeoField, redis,
        queues, loop, history, statusKept, peerKept
<1>12. CASE OnlineDel
  BY <1>12, <1>1 DEF OnlineDel, Del, Finish, StatusKey, Status,
        Kind, Step, FreePc, OnlinePc, OnlineWritten, UnknownPc, ReachablePc,
        GeoField, redis, queues, loop, history, statusKept, peerKept
<1>13. CASE UnknownGet
  BY <1>13, <1>1 DEF UnknownGet, Goto, Kind, Step, FreePc, OnlinePc,
        OnlineWritten, UnknownPc, ReachablePc, GeoField, redis, queues, loop,
        history, statusKept, peerKept
<1>14. CASE UnknownExpire
  BY <1>14, <1>1, MarciAssumption DEF UnknownExpire, ExpireIn, Goto, Kind,
        StatusKey, Status, Step, FreePc, OnlinePc, OnlineWritten, UnknownPc,
        ReachablePc, GeoField, redis, queues, loop, history, statusKept,
        peerKept
<1>15. CASE UnknownScard
  BY <1>15, <1>1 DEF UnknownScard, Goto, Kind, Step, FreePc, OnlinePc,
        OnlineWritten, UnknownPc, ReachablePc, GeoField, redis, queues, loop,
        history, statusKept, peerKept
<1>16. CASE UnknownSet
  <2>1. /\ pc = "un_set" /\ pc' = "un_del" /\ UNCHANGED cur
        /\ cur # Null /\ cur.kind = "unknown" /\ cur.peer \in Peer
    BY <1>16, <1>1 DEF UnknownSet, Kind, FreePc, OnlinePc, OnlineWritten,
        ReachablePc, GeoField
  <2>2. eclipsed' \in SUBSET Peer
    BY <1>16, <2>1 DEF UnknownSet
  <2>3. /\ val' \in [StatusKey -> Version \cup {"unknown", Null}]
        /\ ttl' \in [StatusKey -> Nat]
    BY <1>16, <2>1, MarciAssumption DEF UnknownSet, SetEx, StatusKey, Status
  <2> QED
    BY <1>16, <2>1, <2>2, <2>3 DEF UnknownSet, Step, FreePc, UnknownPc, queues,
        peerKept
<1>17. CASE UnknownDel
  BY <1>17, <1>1 DEF UnknownDel, Goto, Kind, Step, FreePc, OnlinePc,
        OnlineWritten, UnknownPc, ReachablePc, GeoField, redis, queues, loop,
        history, statusKept, peerKept
<1>18. CASE UnknownSeen
  BY <1>18, <1>1 DEF UnknownSeen, SetField, Field, Finish, Kind,
        Step, FreePc, OnlinePc, OnlineWritten, UnknownPc, ReachablePc,
        GeoField, redis, queues, loop, history, statusKept, peerKept
<1>19. CASE ReachableSadd
  BY <1>19, <1>1 DEF ReachableSadd, Goto, Kind, Step, FreePc, OnlinePc,
        OnlineWritten, UnknownPc, ReachablePc, GeoField, redis, queues, loop,
        history, statusKept, peerKept
<1>20. CASE ReachableQuick
  BY <1>20, <1>1, IntoStrType DEF ReachableQuick, Kind, Step, FreePc,
        OnlinePc, OnlineWritten, UnknownPc, ReachablePc, GeoField, redis,
        queues, loop, history, statusKept, peerKept
<1>21. CASE ReachableIp
  <2>1. cur # Null /\ cur.peer \in Peer
    BY <1>21, <1>1 DEF ReachableIp, FreePc
  <2>2. PICK e \in todo : /\ ips' = [ips EXCEPT ![cur.peer] = @ \cup {e}]
                          /\ todo' = todo \ {e}
    BY <1>21 DEF ReachableIp
  <2>3. todo \in SUBSET Endpoint /\ ips \in [Peer -> SUBSET Endpoint]
    BY <1>21 DEF ReachableIp
  <2>4. ips' \in [Peer -> SUBSET Endpoint] /\ todo' \in SUBSET Endpoint
    <3> HIDE DEF TypeOK
    <3> QED BY <2>1, <2>2, <2>3
  <2> QED
    BY <1>21, <2>4 DEF ReachableIp, queues, history, statusKept
<1>22. CASE ReachableNetwork
  BY <1>22, <1>1, IntoStrType DEF ReachableNetwork, Goto, Kind, Step, FreePc,
        OnlinePc, OnlineWritten, UnknownPc, ReachablePc, GeoField, redis,
        queues, loop, history, statusKept, peerKept
<1>23. CASE ReachableSeen
  BY <1>23, <1>1 DEF ReachableSeen, SetField, Field, Goto, Kind, Step, FreePc,
        OnlinePc, OnlineWritten, UnknownPc, ReachablePc, GeoField, redis,
        queues, loop, history, statusKept, peerKept
<1>24. CASE ReachableCountry
  <2>1. geo' \in SUBSET GeoField
    BY <1>24, PlaceType DEF ReachableCountry, Lookup, Goto
  <2> QED
    BY <1>24, <1>1, <2>1 DEF ReachableCountry, Lookup, Goto, Kind, Step, FreePc,
        OnlinePc, OnlineWritten, UnknownPc, ReachablePc, GeoField, redis,
        queues, loop, history, statusKept, peerKept
<1>25. CASE ReachableService
  <2>1. lastUpdate' \in BOOLEAN
    BY <1>25 DEF ReachableService, UpdateService
  <2> QED
    BY <1>25, <1>1, <2>1 DEF ReachableService, Finish, Kind, Step,
        FreePc, OnlinePc, OnlineWritten, UnknownPc, ReachablePc, GeoField,
        redis, queues, loop, history, statusKept, peerKept
<1>26. CASE BroadcastKeys
  BY <1>26 DEF BroadcastKeys, Step, FreePc, OnlinePc, OnlineWritten,
        UnknownPc, ReachablePc, GeoField, redis, queues, loop, history,
        statusKept, peerKept
<1>27. CASE BroadcastPublish
  <2>1. PICK p \in todo :
           /\ needs_dial' = [peer |-> p, addrs |-> ips[p],
                             network |-> FromString(network[p])]
           /\ todo' = todo \ {p}
    BY <1>27 DEF BroadcastPublish
  <2>2. p \in Peer /\ FromString(network[p]) \in Networks
    BY <1>27, FromStringType DEF BroadcastPublish
  <2>3. needs_dial' \in DialRequest
    BY <2>1, <2>2 DEF DialRequest
  <2> QED
    BY <1>27, <2>1, <2>3 DEF BroadcastPublish, redis, queues, history
<1>28. CASE BroadcastService
  <2>1. lastUpdate' \in BOOLEAN
    BY <1>28 DEF BroadcastService, UpdateService
  <2> QED
    BY <1>28, <2>1 DEF BroadcastService, Goto, Step, FreePc, OnlinePc, OnlineWritten,
        UnknownPc, ReachablePc, GeoField, redis, queues, loop, history,
        statusKept, peerKept
<1>29. CASE BrokerAck
  BY <1>29 DEF BrokerAck, redis, queues, loop, history, statusKept, peerKept
<1>30. ASSUME NEW k \in StatusKey, KeyExpires(k) PROVE TypeOK'
  BY <1>30 DEF KeyExpires, Del, redis, queues, loop, history, statusKept,
        peerKept
<1>31. CASE TimePasses
  <2>1. ttl' \in [StatusKey -> Nat]
    <3>1. /\ ttl \in [StatusKey -> Nat]
          /\ ttl' = [k \in StatusKey |-> IF val[k] = Null THEN 0 ELSE ttl[k] - 1]
          /\ \A k \in StatusKey : val[k] # Null => ttl[k] > 0
      BY <1>31 DEF TimePasses
    <3> HIDE DEF TypeOK
    <3>2. \A k \in StatusKey : (IF val[k] = Null THEN 0 ELSE ttl[k] - 1) \in Nat
      BY <3>1
    <3> QED BY <3>1, <3>2
  <2> QED BY <1>31, <2>1 DEF TimePasses, queues, loop, history
<1>32. CASE Crash
  <2>1. rx' \in [Kind -> Seq(Report)] /\ \A k \in Kind : rx'[k] \in Seq(ReportOf(k))
    BY <1>32, EmptyType DEF Crash
  <2>2. torn' \in SUBSET (Kind \X Peer)
    <3>1. torn \in SUBSET (Kind \X Peer)
      OBVIOUS
    <3>2. \/ torn' = torn
          \/ cur # Null /\ torn' = torn \cup {<<cur.kind, cur.peer>>}
      BY <1>32 DEF Crash
    <3> HIDE DEF TypeOK
    <3> QED BY <1>1, <3>1, <3>2
  <2>3. failures' \in Nat
    <3>1. failures \in Nat /\ failures' = failures + 1
      BY <1>32 DEF Crash
    <3> HIDE DEF TypeOK
    <3> QED BY <3>1
  <2>4. /\ pc' = "down" /\ cur' = Null /\ todo' = {} /\ geo' = {}
        /\ held' = Null /\ UNCHANGED <<redis, needs_dial, eclipsed>>
    BY <1>32 DEF Crash
  <2> QED
    BY <2>1, <2>2, <2>3, <2>4 DEF redis, Step, FreePc
<1>33. CASE Restart
  BY <1>33 DEF Restart, Goto, Step, FreePc, OnlinePc, OnlineWritten,
        UnknownPc, ReachablePc, GeoField, redis, queues, loop, history,
        statusKept, peerKept
<1>34. CASE UNCHANGED vars
  BY <1>34 DEF vars, redis, queues, loop, history, statusKept, peerKept
<1>35. CASE OnlineMisread
  <2>1. failures' \in Nat
    BY <1>35, MisreadType DEF OnlineMisread
  <2> QED
    BY <1>35, <1>1, <2>1 DEF OnlineMisread, Kind, Step, FreePc, OnlinePc,
        OnlineWritten, UnknownPc, ReachablePc, GeoField, redis, queues, loop,
        history, statusKept, peerKept
<1>36. CASE UnknownMisread
  <2>1. failures' \in Nat
    BY <1>36, MisreadType DEF UnknownMisread
  <2>2. torn' \in SUBSET (Kind \X Peer)
    <3>1. /\ torn \in SUBSET (Kind \X Peer) /\ cur.peer \in Peer
          /\ torn' = torn \cup {<<"online", cur.peer>>}
      BY <1>36, <1>1 DEF UnknownMisread, FreePc
    <3> HIDE DEF TypeOK
    <3> QED BY <3>1 DEF Kind
  <2> QED
    BY <1>36, <1>1, <2>1, <2>2 DEF UnknownMisread, Kind, Step, FreePc, OnlinePc,
        OnlineWritten, UnknownPc, ReachablePc, GeoField, redis, queues, loop,
        history, statusKept, peerKept
<1>37. CASE WitnessesMisread
  <2>1. failures' \in Nat
    BY <1>37, MisreadType DEF WitnessesMisread
  <2> QED
    BY <1>37, <1>1, <2>1 DEF WitnessesMisread, Kind, Step, FreePc, OnlinePc,
        OnlineWritten, UnknownPc, ReachablePc, GeoField, redis, queues, loop,
        history, statusKept, peerKept
<1>38. CASE CountryMisread
  <2>1. failures' \in Nat
    BY <1>38, MisreadType DEF CountryMisread
  <2>2. geo' \in SUBSET GeoField
    BY <1>38, PlaceType DEF CountryMisread
  <2> QED
    BY <1>38, <1>1, <2>1, <2>2 DEF CountryMisread, Kind, Step, FreePc, OnlinePc,
        OnlineWritten, UnknownPc, ReachablePc, GeoField, redis, queues, loop,
        history, statusKept, peerKept
<1>39. CASE BroadcastMisread
  <2>0. PICK p \in todo : \E as \in {ips[p], {}}, n \in {network[p], ""} :
           /\ needs_dial' = [peer |-> p, addrs |-> as, network |-> FromString(n)]
           /\ todo' = todo \ {p}
    BY <1>39 DEF BroadcastMisread
  <2>1. PICK as \in {ips[p], {}}, n \in {network[p], ""} :
           /\ needs_dial' = [peer |-> p, addrs |-> as, network |-> FromString(n)]
           /\ todo' = todo \ {p}
    BY <2>0
  <2>2. p \in Peer /\ as \in SUBSET Endpoint /\ todo' \in SUBSET todo
    BY <1>39, <2>1 DEF BroadcastMisread
  <2>3. needs_dial' \in DialRequest
    <3> HIDE DEF TypeOK
    <3> QED BY <2>1, <2>2, FromStringType DEF DialRequest
  <2>4. failures' \in Nat
    BY <1>39, MisreadType DEF BroadcastMisread
  <2> QED
    BY <1>39, <2>2, <2>3, <2>4 DEF BroadcastMisread, redis, queues
<1> QED
  BY <1>2, <1>3, <1>4, <1>5, <1>6, <1>7, <1>8, <1>9, <1>10, <1>11, <1>12,
        <1>13, <1>14, <1>15, <1>16, <1>17, <1>18, <1>19, <1>20, <1>21, <1>22,
        <1>23, <1>24, <1>25, <1>26, <1>27, <1>28, <1>29, <1>30, <1>31, <1>32,
        <1>33, <1>34, <1>35, <1>36, <1>37, <1>38, <1>39 DEF Next, HandlerStep, OnlineStep, UnknownStep,
        ReachableStep, BroadcastStep

\* The initial state is well typed.
LEMMA InitType == Init => TypeOK
<1> SUFFICES ASSUME Init PROVE TypeOK
  OBVIOUS
<1>1. rx \in [Kind -> Seq(Report)] /\ \A k \in Kind : rx[k] \in Seq(ReportOf(k))
  BY EmptyType DEF Init
<1> QED BY <1>1 DEF Init, TypeOK, Step, FreePc

\* Every reachable state is well typed: the handlers of marci never meet a
\* report of another kind and never store a malformed value.
THEOREM TypeCorrect == Spec => []TypeOK
BY InitType, TypeStep, PTL DEF Spec

------------------------------------------------------------------------------
(* The status keys *)

\* The facts about the status keys are inductive together.
LEMMA StatusStep == TypeOK /\ StatusInv /\ [Next]_vars => StatusInv'
<1> SUFFICES ASSUME TypeOK, StatusInv, [Next]_vars PROVE StatusInv'
  OBVIOUS
<1> USE DEF StatusInv, MapExclusive, StatusKnown, UnknownReplaced, Handling,
            Online, Online2, Unknown
<1>1. cur # Null => cur \in Report /\ cur.kind \in Kind /\ cur.peer \in Peer
  BY ReportFacts DEF TypeOK
<1>2. /\ val \in [StatusKey -> Version \cup {"unknown", Null}]
      /\ ttl \in [StatusKey -> Nat]
      /\ IF pc \in FreePc
         THEN cur = Null
         ELSE /\ cur # Null
              /\ cur.kind = "online" => pc \in OnlinePc
              /\ cur.kind = "unknown" => pc \in UnknownPc
              /\ cur.kind = "reachable" => pc \in ReachablePc
  BY DEF TypeOK
<1>10. ASSUME NEW m \in Inbox, MqttReceive(m) PROVE StatusInv'
  BY <1>10 DEF MqttReceive, redis, queues, loop, history, statusKept, peerKept
<1>11. CASE MqttForward
  BY <1>11 DEF MqttForward, redis, queues, loop, history, statusKept, peerKept
<1>12. ASSUME NEW k \in Kind, Take(k) PROVE StatusInv'
  BY <1>12, <1>1, <1>2 DEF Take, FirstStep, FreePc, OnlinePc, OnlineWritten,
        UnknownPc, ReachablePc, GeoField, redis, queues, loop, history,
        statusKept, peerKept
<1>13. CASE WriteGeo
  BY <1>13, <1>1, <1>2 DEF WriteGeo, AfterGeo, Kind, FreePc, OnlinePc,
        OnlineWritten, UnknownPc, ReachablePc, GeoField, redis, queues, loop,
        history, statusKept, peerKept
<1>14. CASE OnlineGet
  BY <1>14, <1>1, <1>2 DEF OnlineGet, Goto, FreePc, OnlinePc, OnlineWritten,
        UnknownPc, ReachablePc, GeoField, redis, queues, loop, history,
        statusKept, peerKept
<1>15. CASE OnlineExpire
  BY <1>15, <1>1, <1>2, MarciAssumption DEF OnlineExpire, ExpireIn, Goto,
        StatusKey, Status, FreePc, OnlinePc, OnlineWritten, UnknownPc,
        ReachablePc, GeoField, redis, queues, loop, history, statusKept,
        peerKept
<1>16. CASE OnlineSet
  <2> DEFINE p == cur.peer
             s == IF cur.isEx THEN "online2" ELSE "online"
  <2>1. /\ pc = "on_set" /\ pc' = "on_addr" /\ UNCHANGED <<cur, torn, eclipsed>>
        /\ val' = [val EXCEPT ![<<s, p>>] = cur.version]
        /\ ttl' = [ttl EXCEPT ![<<s, p>>] = OnlineTimeout]
    BY <1>16 DEF OnlineSet, SetEx, Goto, history
  <2>2. cur # Null /\ p \in Peer /\ cur.kind = "online"
    BY <1>1, <1>2, <2>1 DEF Kind, FreePc, UnknownPc, ReachablePc, GeoField
  <2>3. cur.version \in Version /\ cur.version # Null
    BY <1>1, <2>2, ReportFacts, MarciAssumption
  <2>4. s \in {"online", "online2"} /\ <<s, p>> \in StatusKey
    BY <2>2 DEF StatusKey, Status
  <2>5. val'[<<s, p>>] # Null /\ ttl'[<<s, p>>] > 0
    BY <1>2, <2>1, <2>3, <2>4, MarciAssumption
  <2>6. \A q \in Peer : /\ val'[<<"unknown", q>>] = val[<<"unknown", q>>]
                        /\ q # p => /\ val'[<<"online", q>>] = val[<<"online", q>>]
                                    /\ val'[<<"online2", q>>] = val[<<"online2", q>>]
    BY <1>2, <2>1, <2>2, <2>4 DEF StatusKey, Status
  <2> HIDE DEF s
  <2>7. MapExclusive'
    BY <2>1, <2>2, <2>6 DEF OnlineWritten
  <2>8. StatusKnown' /\ UnknownReplaced'
    BY <2>1, <2>2, <2>4, <2>5
  <2> QED BY <2>7, <2>8
<1>17. CASE OnlineAddr
  BY <1>17, <1>1, <1>2 DEF OnlineAddr, Lookup, Goto, FreePc, OnlinePc,
        OnlineWritten, UnknownPc, ReachablePc, GeoField, redis, queues, loop,
        history, statusKept, peerKept
<1>18. CASE OnlineFull
  BY <1>18, <1>1, <1>2 DEF OnlineFull, Goto, FreePc, OnlinePc, OnlineWritten,
        UnknownPc, ReachablePc, GeoField, redis, queues, loop, history,
        statusKept, peerKept
<1>19. CASE OnlineSeen
  BY <1>19, <1>1, <1>2 DEF OnlineSeen, Goto, FreePc, OnlinePc, OnlineWritten,
        UnknownPc, ReachablePc, GeoField, redis, queues, loop, history,
        statusKept, peerKept
<1>20. CASE OnlineDel
  BY <1>20, <1>1, <1>2 DEF OnlineDel, Del, Finish, StatusKey, Status, FreePc,
        OnlinePc, OnlineWritten, UnknownPc, ReachablePc, GeoField, redis,
        queues, loop, history, statusKept, peerKept
<1>21. CASE UnknownGet
  BY <1>21, <1>1, <1>2 DEF UnknownGet, Goto, FreePc, OnlinePc, OnlineWritten,
        UnknownPc, ReachablePc, GeoField, redis, queues, loop, history,
        statusKept, peerKept
<1>22. CASE UnknownExpire
  BY <1>22, <1>1, <1>2 DEF UnknownExpire, ExpireIn, Goto, StatusKey, Status,
        FreePc, OnlinePc, OnlineWritten, UnknownPc, ReachablePc, GeoField,
        redis, queues, loop, history, statusKept, peerKept
<1>23. CASE UnknownScard
  BY <1>23, <1>1, <1>2 DEF UnknownScard, Goto, FreePc, OnlinePc,
        OnlineWritten, UnknownPc, ReachablePc, GeoField, redis, queues, loop,
        history, statusKept, peerKept
<1>24. CASE UnknownSet
  BY <1>24, <1>1, <1>2 DEF UnknownSet, SetEx, Goto, StatusKey, Status, FreePc,
        OnlinePc, OnlineWritten, UnknownPc, ReachablePc, GeoField, redis,
        queues, loop, history, statusKept, peerKept
<1>25. CASE UnknownDel
  BY <1>25, <1>1, <1>2 DEF UnknownDel, Goto, FreePc, OnlinePc, OnlineWritten,
        UnknownPc, ReachablePc, GeoField, redis, queues, loop, history,
        statusKept, peerKept
<1>26. CASE UnknownSeen
  BY <1>26, <1>1, <1>2 DEF UnknownSeen, Finish, FreePc, OnlinePc,
        OnlineWritten, UnknownPc, ReachablePc, GeoField, redis, queues, loop,
        history, statusKept, peerKept
<1>27. CASE ReachableSadd
  BY <1>27, <1>1, <1>2 DEF ReachableSadd, Goto, FreePc, OnlinePc,
        OnlineWritten, UnknownPc, ReachablePc, GeoField, redis, queues, loop,
        history, statusKept, peerKept
<1>28. CASE ReachableQuick
  BY <1>28, <1>1, <1>2 DEF ReachableQuick, FreePc, OnlinePc, OnlineWritten,
        UnknownPc, ReachablePc, GeoField, redis, queues, loop, history,
        statusKept, peerKept
<1>29. CASE ReachableIp
  BY <1>29, <1>1, <1>2 DEF ReachableIp, FreePc, OnlinePc, OnlineWritten,
        UnknownPc, ReachablePc, GeoField, redis, queues, loop, history,
        statusKept, peerKept
<1>30. CASE ReachableNetwork
  BY <1>30, <1>1, <1>2 DEF ReachableNetwork, Goto, FreePc, OnlinePc,
        OnlineWritten, UnknownPc, ReachablePc, GeoField, redis, queues, loop,
        history, statusKept, peerKept
<1>31. CASE ReachableSeen
  BY <1>31, <1>1, <1>2 DEF ReachableSeen, Goto, FreePc, OnlinePc,
        OnlineWritten, UnknownPc, ReachablePc, GeoField, redis, queues, loop,
        history, statusKept, peerKept
<1>32. CASE ReachableCountry
  BY <1>32, <1>1, <1>2 DEF ReachableCountry, Lookup, Goto, FreePc, OnlinePc,
        OnlineWritten, UnknownPc, ReachablePc, GeoField, redis, queues, loop,
        history, statusKept, peerKept
<1>33. CASE ReachableService
  BY <1>33, <1>1, <1>2 DEF ReachableService, Finish, FreePc, OnlinePc,
        OnlineWritten, UnknownPc, ReachablePc, GeoField, redis, queues, loop,
        history, statusKept, peerKept
<1>34. CASE BroadcastKeys
  BY <1>34, <1>1, <1>2 DEF BroadcastKeys, FreePc, OnlinePc, OnlineWritten,
        UnknownPc, ReachablePc, GeoField, redis, queues, loop, history,
        statusKept, peerKept
<1>35. CASE BroadcastPublish
  BY <1>35, <1>1, <1>2 DEF BroadcastPublish, FreePc, OnlinePc, OnlineWritten,
        UnknownPc, ReachablePc, GeoField, redis, queues, loop, history,
        statusKept, peerKept
<1>36. CASE BroadcastService
  BY <1>36, <1>1, <1>2 DEF BroadcastService, Goto, FreePc, OnlinePc,
        OnlineWritten, UnknownPc, ReachablePc, GeoField, redis, queues, loop,
        history, statusKept, peerKept
<1>37. CASE BrokerAck
  BY <1>37 DEF BrokerAck, redis, queues, loop, history, statusKept, peerKept
<1>38. ASSUME NEW k \in StatusKey, KeyExpires(k) PROVE StatusInv'
  BY <1>38, <1>1, <1>2 DEF KeyExpires, Del, StatusKey, Status, redis, queues,
        loop, history, statusKept, peerKept
<1>39. CASE TimePasses
  BY <1>39, <1>1, <1>2 DEF TimePasses, FreePc, OnlinePc, OnlineWritten,
        UnknownPc, ReachablePc, GeoField, redis, queues, loop, history,
        statusKept, peerKept
<1>40. CASE Crash
  BY <1>40, <1>1, <1>2 DEF Crash, FreePc, OnlinePc, OnlineWritten, UnknownPc,
        ReachablePc, GeoField, redis, queues, loop, history, statusKept,
        peerKept
<1>41. CASE Restart
  BY <1>41, <1>1, <1>2 DEF Restart, Goto, FreePc, OnlinePc, OnlineWritten,
        UnknownPc, ReachablePc, GeoField, redis, queues, loop, history,
        statusKept, peerKept
<1>42. CASE UNCHANGED vars
  BY <1>42 DEF vars, redis, queues, loop, history, statusKept, peerKept
<1>43. CASE OnlineMisread
  BY <1>43, <1>1, <1>2 DEF OnlineMisread, FreePc, OnlinePc, OnlineWritten,
        UnknownPc, ReachablePc, GeoField, redis, queues, loop, history,
        statusKept, peerKept
<1>44. CASE UnknownMisread
  BY <1>44, <1>1, <1>2 DEF UnknownMisread, FreePc, OnlinePc, OnlineWritten,
        UnknownPc, ReachablePc, GeoField, redis, queues, loop, history,
        statusKept, peerKept
<1>45. CASE WitnessesMisread
  BY <1>45, <1>1, <1>2 DEF WitnessesMisread, FreePc, OnlinePc, OnlineWritten,
        UnknownPc, ReachablePc, GeoField, redis, queues, loop, history,
        statusKept, peerKept
<1>46. CASE CountryMisread
  BY <1>46, <1>1, <1>2 DEF CountryMisread, FreePc, OnlinePc, OnlineWritten,
        UnknownPc, ReachablePc, GeoField, redis, queues, loop, history,
        statusKept, peerKept
<1>47. CASE BroadcastMisread
  BY <1>47, <1>1, <1>2 DEF BroadcastMisread, FreePc, OnlinePc, OnlineWritten,
        UnknownPc, ReachablePc, GeoField, redis, queues, loop, history,
        statusKept, peerKept
<1> QED
  BY <1>10, <1>11, <1>12, <1>13, <1>14, <1>15, <1>16, <1>17, <1>18, <1>19,
        <1>20, <1>21, <1>22, <1>23, <1>24, <1>25, <1>26, <1>27, <1>28, <1>29,
        <1>30, <1>31, <1>32, <1>33, <1>34, <1>35, <1>36, <1>37, <1>38, <1>39,
        <1>40, <1>41, <1>42, <1>43, <1>44, <1>45, <1>46, <1>47 DEF Next, HandlerStep, OnlineStep, UnknownStep,
        ReachableStep, BroadcastStep

------------------------------------------------------------------------------
(* The witnesses *)

\* The unknown handler knows that there are enough witnesses from the moment
\* it has counted them, and that the unknown key is there before it deletes
\* them: the key just written is not due while the handler runs.
LEMMA UpgradedStep == TypeOK /\ Upgraded /\ [Next]_vars => Upgraded'
<1> SUFFICES ASSUME TypeOK, Upgraded, [Next]_vars PROVE Upgraded'
  OBVIOUS
<1> USE DEF Upgraded, Unknown
<1>1. pc \in UnknownPc => cur.peer \in Peer
  BY ReportFacts DEF TypeOK, UnknownPc, FreePc
<1>2. /\ val \in [StatusKey -> Version \cup {"unknown", Null}]
      /\ ttl \in [StatusKey -> Nat]
      /\ reachable \in [Peer -> SUBSET Peer]
  BY DEF TypeOK
<1>3. ASSUME NEW m \in Inbox, MqttReceive(m) PROVE Upgraded'
  BY <1>3 DEF MqttReceive, redis, loop
<1>4. CASE MqttForward
  BY <1>4 DEF MqttForward, redis, loop
<1>5. ASSUME NEW k \in Kind, Take(k) PROVE Upgraded'
  BY <1>5 DEF Take, FirstStep
<1>6. CASE OnlineStep \/ WriteGeo
  BY <1>6 DEF OnlineStep, OnlineGet, OnlineMisread, OnlineExpire, OnlineSet,
        OnlineAddr, OnlineFull, OnlineSeen, OnlineDel, Goto, Finish, Lookup,
        WriteGeo, AfterGeo, GeoField
<1>7. CASE UnknownStep
  <2>1. CASE UnknownSet
    <3>1. <<"unknown", cur.peer>> \in StatusKey
      BY <1>1, <2>1 DEF UnknownSet, UnknownPc, StatusKey, Status
    <3>2. /\ val'[<<"unknown", cur.peer>>] = "unknown"
          /\ ttl'[<<"unknown", cur.peer>>] = UnknownTimeout
      BY <1>2, <2>1, <3>1 DEF UnknownSet, SetEx
    <3> QED
      BY <2>1, <3>2, MarciAssumption DEF UnknownSet, Goto, peerKept
  <2>2. CASE ~UnknownSet
    BY <1>7, <2>2 DEF UnknownStep, UnknownGet, UnknownMisread, UnknownExpire,
          UnknownScard, WitnessesMisread, UnknownDel, UnknownSeen, Goto, Finish,
          redis, peerKept
  <2> QED BY <2>1, <2>2
<1>8. CASE ReachableStep
  BY <1>8 DEF ReachableStep, ReachableSadd, ReachableQuick, ReachableIp,
        ReachableNetwork, ReachableSeen, ReachableCountry, CountryMisread,
        ReachableService, Goto, Finish, Lookup
<1>9. CASE BroadcastKeys \/ BroadcastStep
  BY <1>9 DEF BroadcastKeys, BroadcastStep, BroadcastPublish, BroadcastMisread,
        BroadcastService, Goto
<1>10. CASE BrokerAck
  BY <1>10 DEF BrokerAck, redis, loop
<1>11. ASSUME NEW k \in StatusKey, KeyExpires(k) PROVE Upgraded'
  BY <1>1, <1>2, <1>11 DEF KeyExpires, Del, loop, StatusKey, Status, UnknownPc
<1>12. CASE TimePasses \/ Crash \/ Restart
  BY <1>12 DEF TimePasses, Crash, Restart, Goto, loop
<1>13. CASE UNCHANGED vars
  BY <1>13 DEF vars, redis, loop
<1> QED
  BY <1>3, <1>4, <1>5, <1>6, <1>7, <1>8, <1>9, <1>10, <1>11, <1>12, <1>13
  DEF Next, HandlerStep

------------------------------------------------------------------------------
(* The network of a peer *)

\* The reachable handler indexes a peer before it stores its network, and a
\* peer has witnesses without a network only while the handler is on its way
\* there or after it was cut short.
LEMMA NetworkStep == TypeOK /\ NetworkIndexed /\ [Next]_vars => NetworkIndexed'
<1> SUFFICES ASSUME TypeOK, NetworkIndexed, [Next]_vars PROVE NetworkIndexed'
  OBVIOUS
<1> USE DEF NetworkIndexed, Handling
<1>1. /\ cur # Null => /\ cur.kind \in Kind /\ cur.peer \in Peer
                       /\ cur.kind = "reachable" => cur.network \in Networks
  BY ReportFacts DEF TypeOK
<1>2. /\ reachable \in [Peer -> SUBSET Peer]
      /\ quick \in [Peer -> SUBSET NetworkStrings]
      /\ network \in [Peer -> NetworkStrings \cup {""}]
      /\ IF pc \in FreePc
         THEN cur = Null
         ELSE /\ cur # Null
              /\ cur.kind = "online" => pc \in OnlinePc
              /\ cur.kind = "unknown" => pc \in UnknownPc
              /\ cur.kind = "reachable" => pc \in ReachablePc
  BY DEF TypeOK
<1>3. ASSUME NEW m \in Inbox, MqttReceive(m) PROVE NetworkIndexed'
  BY <1>3 DEF MqttReceive, redis, loop, history
<1>4. CASE MqttForward
  BY <1>4 DEF MqttForward, redis, loop, history
<1>5. ASSUME NEW k \in Kind, Take(k) PROVE NetworkIndexed'
  <2>1. cur = Null /\ cur'.kind = k
    <3>1. rx[k] \in Seq(ReportOf(k)) /\ rx[k] # <<>> /\ cur' = Head(rx[k])
      BY <1>5 DEF TypeOK, Take
    <3>2. cur' \in ReportOf(k)
      BY <3>1, HeadTailType
    <3> QED BY <1>2, <1>5, <3>2 DEF Take, FreePc, ReportOf
  <2> QED
    BY <1>5, <2>1 DEF Take, FirstStep, Kind, redis, history
<1>6. CASE OnlineStep
  BY <1>1, <1>2, <1>6 DEF OnlineStep, OnlineGet, OnlineMisread, OnlineExpire,
        OnlineSet, OnlineAddr, OnlineFull, OnlineSeen, OnlineDel, Goto,
        Finish, Lookup, OnlinePc, ReachablePc, GeoField, FreePc,
        OnlineWritten, redis, queues, history, statusKept, peerKept, Kind
<1>7. CASE WriteGeo
  BY <1>1, <1>2, <1>7 DEF WriteGeo, AfterGeo, GeoField, history
<1>8. CASE UnknownStep
  BY <1>1, <1>2, <1>8 DEF UnknownStep, UnknownGet, UnknownMisread,
        UnknownExpire, UnknownScard, WitnessesMisread, UnknownSet, UnknownDel,
        UnknownSeen, Goto, Finish, FreePc, ReachablePc, GeoField, redis,
        history, statusKept, peerKept, Kind
<1>9. CASE ReachableSadd
  BY <1>1, <1>2, IntoStrType, <1>9 DEF ReachableSadd, Goto, FreePc, OnlinePc,
        UnknownPc, OnlineWritten, GeoField, Kind, redis, history
<1>10. CASE ReachableQuick
  BY <1>1, <1>2, IntoStrType, <1>10 DEF ReachableQuick, FreePc, OnlinePc,
        UnknownPc, OnlineWritten, GeoField, Kind, redis, history
<1>11. CASE ReachableIp
  BY <1>1, <1>2, IntoStrType, <1>11 DEF ReachableIp, FreePc, OnlinePc,
        UnknownPc, OnlineWritten, GeoField, Kind, redis, history
<1>12. CASE ReachableNetwork
  BY <1>1, <1>2, IntoStrType, <1>12 DEF ReachableNetwork, Goto, FreePc,
        OnlinePc, UnknownPc, OnlineWritten, GeoField, Kind, redis, history
<1>13. CASE ReachableSeen
  BY <1>1, <1>2, IntoStrType, <1>13 DEF ReachableSeen, Goto, FreePc, OnlinePc,
        UnknownPc, OnlineWritten, GeoField, Kind, redis, history
<1>14. CASE ReachableCountry
  BY <1>1, <1>2, IntoStrType, <1>14 DEF ReachableCountry, Goto, Lookup,
        FreePc, OnlinePc, UnknownPc, OnlineWritten, GeoField, Kind, redis,
        history
<1>15. CASE CountryMisread
  BY <1>1, <1>2, IntoStrType, <1>15 DEF CountryMisread, FreePc, OnlinePc,
        UnknownPc, OnlineWritten, GeoField, Kind, redis, history
<1>16. CASE ReachableService
  BY <1>1, <1>2, IntoStrType, <1>16 DEF ReachableService, Finish, FreePc,
        OnlinePc, UnknownPc, OnlineWritten, GeoField, Kind, redis, history
<1>17. CASE BroadcastKeys
  BY <1>2, <1>17 DEF BroadcastKeys, FreePc, redis, history
<1>18. CASE BroadcastStep
  BY <1>2, <1>18 DEF BroadcastStep, BroadcastPublish, BroadcastMisread,
        BroadcastService, Goto, FreePc, redis, history
<1>19. CASE BrokerAck
  BY <1>19 DEF BrokerAck, redis, loop, history
<1>20. ASSUME NEW k \in StatusKey, KeyExpires(k) PROVE NetworkIndexed'
  BY <1>20 DEF KeyExpires, loop, history
<1>21. CASE TimePasses
  BY <1>21 DEF TimePasses, loop, history
<1>22. CASE Crash \/ Restart
  BY <1>1, <1>2, <1>22 DEF Crash, Restart, Goto, FreePc, redis, history
<1>23. CASE UNCHANGED vars
  BY <1>23 DEF vars, redis, loop, history
<1> QED
  BY <1>3, <1>4, <1>5, <1>6, <1>7, <1>8, <1>9, <1>10, <1>11, <1>12, <1>13,
     <1>14, <1>15, <1>16, <1>17, <1>18, <1>19, <1>20, <1>21, <1>22, <1>23
  DEF Next, HandlerStep, ReachableStep

------------------------------------------------------------------------------
(* The theorems *)

\* MarciInv, the conjunction of the above, holds in every reachable state.
THEOREM Invariance == Spec => []MarciInv
<1>1. Init => MarciInv
  <2> SUFFICES ASSUME Init PROVE MarciInv
    OBVIOUS
  <2>1. TypeOK
    BY InitType
  <2>2. StatusInv
    BY DEF Init, StatusInv, MapExclusive, StatusKnown, UnknownReplaced, Online,
           Online2, Unknown, StatusKey, Status
  <2>3. Upgraded /\ NetworkIndexed
    BY DEF Init, Upgraded, NetworkIndexed
  <2> QED BY <2>1, <2>2, <2>3 DEF MarciInv
<1>2. MarciInv /\ [Next]_vars => MarciInv'
  BY TypeStep, StatusStep, UpgradedStep, NetworkStep DEF MarciInv
<1> QED BY <1>1, <1>2, PTL DEF Spec

\* A peer that is online, on either topic, is not unknown at once, other than
\* while its online report is being handled, after a failure, or when the
\* unknown handler has upgraded a peer that had an online2 key only.
THEOREM Exclusive == Spec => []MapExclusive
<1>1. MarciInv => MapExclusive
  BY DEF MarciInv, StatusInv
<1> QED BY <1>1, Invariance, PTL

\* The witnesses of a peer are deleted only for an upgrade to unknown, which
\* is on the map by then.
THEOREM Traded == Spec => WitnessesTraded
<1>1. MarciInv /\ [Next]_vars =>
        [\A p \in Peer : ~(reachable[p] \subseteq reachable'[p]) =>
            /\ Unknown(p)
            /\ Cardinality(reachable[p]) >= WitnessThreshold]_vars
  <2> SUFFICES ASSUME MarciInv, [Next]_vars,
                      NEW p \in Peer, ~(reachable[p] \subseteq reachable'[p])
               PROVE  /\ Unknown(p)
                      /\ Cardinality(reachable[p]) >= WitnessThreshold
    OBVIOUS
  <2>1. reachable \in [Peer -> SUBSET Peer]
    BY DEF MarciInv, TypeOK
  <2>2. UnknownDel
    BY <2>1 DEF Next, HandlerStep, MqttReceive, MqttForward, Take, OnlineStep,
          OnlineGet, OnlineMisread, OnlineExpire, OnlineSet, OnlineAddr,
          OnlineFull, OnlineSeen, OnlineDel, UnknownStep, UnknownGet,
          UnknownMisread, UnknownExpire, UnknownScard, WitnessesMisread,
          UnknownSet, UnknownSeen, ReachableStep, ReachableSadd,
          ReachableQuick, ReachableIp, ReachableNetwork, ReachableSeen,
          ReachableCountry, CountryMisread, ReachableService, WriteGeo,
          BroadcastKeys, BroadcastStep, BroadcastPublish, BroadcastMisread,
          BroadcastService, BrokerAck, KeyExpires, TimePasses, Crash, Restart,
          vars, redis, peerKept
  <2>3. p = cur.peer
    BY <2>1, <2>2 DEF UnknownDel
  <2> QED
    BY <2>2, <2>3 DEF UnknownDel, MarciInv, Upgraded
<1> QED BY <1>1, Invariance, PTL DEF Spec, WitnessesTraded

\* A dial request names a network under which the peer is indexed, except
\* after a failure.
THEOREM DialKnown == Spec => DialNetworkKnown
<1>1. MarciInv /\ [Next]_vars =>
        [needs_dial' # needs_dial /\ needs_dial' # Null =>
            \/ IntoStr(needs_dial'.network) \in quick[needs_dial'.peer]
            \/ <<"reachable", needs_dial'.peer>> \in torn
            \/ failures' # failures]_vars
  <2> SUFFICES ASSUME MarciInv, [Next]_vars,
                      needs_dial' # needs_dial, needs_dial' # Null,
                      failures' = failures
               PROVE  \/ IntoStr(needs_dial'.network) \in quick[needs_dial'.peer]
                      \/ <<"reachable", needs_dial'.peer>> \in torn
    OBVIOUS
  <2>1. TypeOK /\ NetworkIndexed
    BY DEF MarciInv
  <2>2. ~BroadcastMisread
    <3>1. failures \in Nat
      BY <2>1 DEF TypeOK
    <3>2. ~Misread
      BY <3>1 DEF Misread
    <3> QED BY <3>2 DEF BroadcastMisread
  <2>3. BroadcastPublish
    BY <2>2 DEF Next, HandlerStep, MqttReceive, MqttForward, Take, OnlineStep,
          OnlineGet, OnlineMisread, OnlineExpire, OnlineSet, OnlineAddr,
          OnlineFull, OnlineSeen, OnlineDel, UnknownStep, UnknownGet,
          UnknownMisread, UnknownExpire, UnknownScard, WitnessesMisread,
          UnknownSet, UnknownDel, UnknownSeen, ReachableStep, ReachableSadd,
          ReachableQuick, ReachableIp, ReachableNetwork, ReachableSeen,
          ReachableCountry, CountryMisread, ReachableService, WriteGeo,
          BroadcastKeys, BroadcastStep, BroadcastService, BrokerAck,
          KeyExpires, TimePasses, Crash, Restart, vars
  <2>4. PICK p \in todo : needs_dial' = [peer |-> p, addrs |-> ips[p],
                                         network |-> FromString(network[p])]
    BY <2>3 DEF BroadcastPublish
  <2>5. /\ p \in Peer /\ reachable[p] # {} /\ cur = Null
        /\ network[p] \in NetworkStrings \cup {""}
    BY <2>1, <2>3 DEF BroadcastPublish, TypeOK, NetworkIndexed, FreePc
  <2>6. CASE network[p] = ""
    BY <2>1, <2>4, <2>5, <2>6 DEF NetworkIndexed, Handling
  <2>7. CASE network[p] # ""
    <3>1. PICK n \in Networks : network[p] = IntoStr(n)
      BY <2>5, <2>7 DEF NetworkStrings
    <3>2. IntoStr(FromString(network[p])) = network[p]
      BY <3>1, FromIntoStr
    <3> QED BY <2>1, <2>4, <2>5, <2>7, <3>2 DEF NetworkIndexed
  <2> QED BY <2>6, <2>7
<1> QED BY <1>1, Invariance, PTL DEF Spec, DialNetworkKnown

\* The steps that change the status keys.
StatusChange == \/ OnlineExpire \/ OnlineSet \/ OnlineDel
                \/ UnknownExpire \/ UnknownSet
                \/ TimePasses
                \/ \E k \in StatusKey : KeyExpires(k)

\* All other steps leave these keys alone.
LEMMA StatusUnchanged ==
    [Next]_vars => StatusChange \/ UNCHANGED statusKept
BY DEF Next, HandlerStep, MqttReceive, MqttForward, Take, OnlineStep,
      OnlineGet, OnlineMisread, OnlineAddr, OnlineFull, OnlineSeen, UnknownStep,
      UnknownGet, UnknownMisread, UnknownScard, WitnessesMisread, UnknownDel,
      UnknownSeen, ReachableStep, ReachableSadd, ReachableQuick, ReachableIp,
      ReachableNetwork, ReachableSeen, ReachableCountry, CountryMisread,
      ReachableService, WriteGeo, BroadcastKeys, BroadcastStep,
      BroadcastPublish, BroadcastMisread, BroadcastService, BrokerAck, Crash,
      Restart, vars, redis, statusKept, StatusChange

\* A peer leaves the map only when one of its keys expires: the online handler
\* has written a key that is not due when it deletes the unknown key.
THEOREM LeavesByExpiry == Spec => LeavesMapOnlyByExpiry
<1>1. MarciInv /\ [Next]_vars =>
        [\A p \in Peer : InMap(p) /\ ~InMap(p)' =>
            \/ \E s \in Status : KeyExpires(<<s, p>>)
            \/ <<"online", p>> \in torn]_vars
  <2> SUFFICES ASSUME MarciInv, [Next]_vars,
                      NEW p \in Peer, InMap(p), ~InMap(p)'
               PROVE  \/ \E s \in Status : KeyExpires(<<s, p>>)
                      \/ <<"online", p>> \in torn
    OBVIOUS
  <2> USE DEF InMap, Online, Online2, Unknown
  <2>1. /\ val \in [StatusKey -> Version \cup {"unknown", Null}]
        /\ Null # "unknown"
    BY MarciAssumption DEF MarciInv, TypeOK
  <2>2. ~(UNCHANGED val)
    OBVIOUS
  <2>3. CASE OnlineExpire \/ UnknownExpire \/ TimePasses
    BY <2>2, <2>3 DEF OnlineExpire, UnknownExpire, ExpireIn, TimePasses
  <2>4. CASE OnlineSet
    <3>1. cur.version # Null
      <4>1. cur \in Report /\ cur.kind = "online"
        BY <2>4, ReportFacts DEF OnlineSet, MarciInv, TypeOK, FreePc, UnknownPc,
            ReachablePc, GeoField, Kind
      <4>2. cur.version \in Version
        BY <4>1, ReportFacts
      <4> QED BY <4>2, MarciAssumption
    <3>2. \A k \in StatusKey : val[k] # Null => val'[k] # Null
      BY <2>1, <2>4, <3>1 DEF OnlineSet, SetEx
    <3> QED BY <3>2 DEF StatusKey, Status
  <2>5. CASE OnlineDel
    <3>1. val' = [val EXCEPT ![<<"unknown", cur.peer>>] = Null]
      BY <2>5 DEF OnlineDel, Del
    <3>2. /\ p = cur.peer /\ Unknown(p) /\ ~Online(p) /\ ~Online2(p)
      BY <2>1, <3>1 DEF StatusKey, Status
    <3>3. cur # Null /\ cur.kind = "online" /\ pc \in OnlineWritten
      BY <2>5, ReportFacts
      DEF OnlineDel, MarciInv, TypeOK, Kind, FreePc, UnknownPc, ReachablePc,
          GeoField, OnlineWritten
    <3> QED
      BY <3>2, <3>3 DEF MarciInv, StatusInv, UnknownReplaced
  <2>6. CASE UnknownSet
    <3>1. \A k \in StatusKey : val[k] # Null => val'[k] # Null
      BY <2>1, <2>6 DEF UnknownSet, SetEx
    <3> QED BY <3>1 DEF StatusKey, Status
  <2>7. ASSUME NEW k \in StatusKey, KeyExpires(k)
        PROVE  \E s \in Status : KeyExpires(<<s, p>>)
    <3>1. val' = [val EXCEPT ![k] = Null]
      BY <2>7 DEF KeyExpires, Del
    <3>2. k \in {<<s, p>> : s \in Status}
      BY <2>1, <3>1 DEF StatusKey, Status
    <3> QED BY <2>7, <3>2
  <2> QED
    BY <2>2, <2>3, <2>4, <2>5, <2>6, <2>7, StatusUnchanged
    DEF StatusChange, statusKept
<1> QED BY <1>1, Invariance, PTL DEF Spec, LeavesMapOnlyByExpiry

------------------------------------------------------------------------------
(* What is stored about a peer *)

\* The online handler has written last_seen before its last step.
SeenInv ==
    /\ ShownPeerHasLastSeen
    /\ pc = "on_del" => "last_seen" \in info[cur.peer]

\* The steps that write to info; the report at hand does not change in them
\* unless the handler is finished.
InfoChange == \/ WriteGeo \/ OnlineFull \/ OnlineSeen \/ UnknownSeen \/ ReachableSeen

LEMMA InfoUnchanged == [Next]_vars => InfoChange \/ info' = info
BY DEF Next, HandlerStep, MqttReceive, MqttForward, Take, OnlineStep, OnlineGet,
      OnlineMisread, OnlineExpire, OnlineSet, OnlineAddr, OnlineDel, UnknownStep,
      UnknownGet, UnknownMisread, UnknownExpire, UnknownScard, WitnessesMisread,
      UnknownSet, UnknownDel, ReachableStep, ReachableSadd, ReachableQuick,
      ReachableIp, ReachableNetwork, ReachableCountry, CountryMisread,
      ReachableService, BroadcastKeys, BroadcastStep, BroadcastPublish,
      BroadcastMisread, BroadcastService, BrokerAck, KeyExpires, TimePasses, Crash,
      Restart, vars, redis, peerKept, InfoChange

\* How the report at hand and the unfinished handlers change.
LEMMA HandlingChange ==
    [Next]_vars => \/ cur' = cur /\ torn \subseteq torn'
                   \/ OnlineDel \/ UnknownSeen \/ ReachableService
                   \/ cur = Null /\ torn' = torn
                   \/ Crash
                   \/ \E k \in Kind : Take(k)
BY DEF Next, HandlerStep, MqttReceive, MqttForward, OnlineStep, OnlineGet,
      OnlineMisread, OnlineExpire, OnlineSet, OnlineAddr, OnlineFull, OnlineSeen,
      UnknownStep, UnknownGet, UnknownMisread, UnknownExpire, UnknownScard,
      WitnessesMisread, UnknownSet, UnknownDel, ReachableStep, ReachableSadd,
      ReachableQuick, ReachableIp, ReachableNetwork, ReachableSeen,
      ReachableCountry, CountryMisread, WriteGeo, BroadcastKeys, BroadcastStep,
      BroadcastPublish, BroadcastMisread, BroadcastService, BrokerAck, KeyExpires,
      TimePasses, Restart, Goto, Lookup, vars, loop, history

\* A peer is put on the map only by a handler of its own.
LEMMA ShownByHandler ==
    ASSUME TypeOK, [Next]_vars, NEW p \in Peer, InMap(p)'
    PROVE  InMap(p) \/ Handling("online", p) \/ Handling("unknown", p)
<1> USE DEF InMap, Online, Online2, Unknown
<1>1. /\ val \in [StatusKey -> Version \cup {"unknown", Null}]
      /\ cur # Null => cur.kind \in Kind /\ cur.peer \in Peer
      /\ pc \in {"on_set", "un_set"} => cur # Null /\ cur.kind # "reachable"
  BY ReportFacts DEF TypeOK, FreePc, ReachablePc, GeoField
<1>2. CASE OnlineSet \/ UnknownSet
  <2>1. cur # Null /\ cur.kind \in {"online", "unknown"}
    BY <1>1, <1>2 DEF OnlineSet, UnknownSet, Kind
  <2>2. \A s \in Status : p # cur.peer => val'[<<s, p>>] = val[<<s, p>>]
    BY <1>1, <1>2 DEF OnlineSet, UnknownSet, SetEx, StatusKey, Status
  <2> QED BY <2>1, <2>2 DEF Handling, Status
<1>3. CASE OnlineDel
  BY <1>1, <1>3 DEF OnlineDel, Del, StatusKey, Status
<1>4. ASSUME NEW k \in StatusKey, KeyExpires(k) PROVE InMap(p)
  BY <1>1, <1>4 DEF KeyExpires, Del, StatusKey, Status
<1>5. CASE OnlineExpire \/ UnknownExpire \/ TimePasses \/ UNCHANGED statusKept
  BY <1>5 DEF OnlineExpire, UnknownExpire, ExpireIn, TimePasses, statusKept
<1> QED
  BY <1>2, <1>3, <1>4, <1>5, StatusUnchanged DEF StatusChange

LEMMA SeenStep == TypeOK /\ SeenInv /\ [Next]_vars => SeenInv'
<1> SUFFICES ASSUME TypeOK, SeenInv, [Next]_vars PROVE SeenInv'
  OBVIOUS
<1>1. /\ info \in [Peer -> SUBSET Field]
      /\ cur # Null => cur.kind \in Kind /\ cur.peer \in Peer
      /\ IF pc \in FreePc
         THEN cur = Null
         ELSE /\ cur # Null
              /\ cur.kind = "online" => pc \in OnlinePc
              /\ cur.kind = "unknown" => pc \in UnknownPc
              /\ cur.kind = "reachable" => pc \in ReachablePc
  BY ReportFacts DEF TypeOK
<1>2. \A p \in Peer : "last_seen" \in info[p] => "last_seen" \in info'[p]
  <2>1. CASE InfoChange
    <3>1. cur.peer \in Peer
      BY <1>1, <2>1 DEF InfoChange, WriteGeo, OnlineFull, OnlineSeen, UnknownSeen,
          ReachableSeen, FreePc, GeoField
    <3> QED
      BY <1>1, <2>1, <3>1 DEF InfoChange, WriteGeo, OnlineFull, OnlineSeen,
          UnknownSeen, ReachableSeen, SetField, GeoField
  <2> QED BY <2>1, InfoUnchanged
<1>3. pc' = "on_del" => "last_seen" \in info'[cur'.peer]
  <2> SUFFICES ASSUME pc' = "on_del" PROVE "last_seen" \in info'[cur'.peer]
    OBVIOUS
  <2>1. OnlineSeen \/ (pc = "on_del" /\ cur' = cur)
    BY DEF Next, HandlerStep, MqttReceive, MqttForward, Take, FirstStep, OnlineStep,
      OnlineGet, OnlineMisread, OnlineExpire, OnlineSet, OnlineAddr, OnlineFull,
      OnlineDel, UnknownStep, UnknownGet, UnknownMisread, UnknownExpire,
      UnknownScard, WitnessesMisread, UnknownSet, UnknownDel, UnknownSeen,
      ReachableStep, ReachableSadd, ReachableQuick, ReachableIp, ReachableNetwork,
      ReachableSeen, ReachableCountry, CountryMisread, ReachableService, WriteGeo,
      AfterGeo, BroadcastKeys, BroadcastStep, BroadcastPublish, BroadcastMisread,
      BroadcastService, BrokerAck, KeyExpires, TimePasses, Crash, Restart, Goto,
      Finish, Lookup, vars, loop
  <2>2. CASE OnlineSeen
    BY <1>1, <2>2 DEF OnlineSeen, SetField, Goto, FreePc
  <2>3. CASE pc = "on_del" /\ cur' = cur
    BY <1>1, <1>2, <2>3 DEF SeenInv, FreePc
  <2> QED BY <2>1, <2>2, <2>3
<1>4. ShownPeerHasLastSeen'
  <2> SUFFICES ASSUME NEW p \in Peer, InMap(p)'
               PROVE  \/ "last_seen" \in info'[p]
                      \/ Handling("online", p)' \/ Handling("unknown", p)'
                      \/ <<"online", p>> \in torn' \/ <<"unknown", p>> \in torn'
    BY DEF ShownPeerHasLastSeen
  <2>1. \/ "last_seen" \in info[p]
        \/ Handling("online", p) \/ Handling("unknown", p)
        \/ <<"online", p>> \in torn \/ <<"unknown", p>> \in torn
    BY ShownByHandler DEF SeenInv, ShownPeerHasLastSeen
  <2>2. CASE (cur' = cur /\ torn \subseteq torn') \/ (cur = Null /\ torn' = torn)
    BY <1>2, <2>1, <2>2 DEF Handling
  <2>3. CASE OnlineDel
    <3>1. /\ "last_seen" \in info[cur.peer] /\ cur # Null
          /\ torn' = torn \ {<<cur.kind, cur.peer>>}
      BY <1>1, <2>3 DEF OnlineDel, Finish, SeenInv, FreePc
    <3> QED BY <1>2, <2>1, <3>1 DEF Handling
  <2>4. CASE UnknownSeen
    <3>1. /\ "last_seen" \in info'[cur.peer] /\ cur # Null
          /\ torn' = torn \ {<<cur.kind, cur.peer>>}
      BY <1>1, <2>4 DEF UnknownSeen, SetField, Finish, FreePc
    <3> QED BY <1>2, <2>1, <3>1 DEF Handling
  <2>5. CASE ReachableService
    <3>1. /\ cur # Null /\ cur.kind = "reachable"
          /\ torn' = torn \ {<<cur.kind, cur.peer>>}
      BY <1>1, <2>5 DEF ReachableService, Finish, FreePc, OnlinePc, OnlineWritten,
          UnknownPc, GeoField, Kind
    <3> QED BY <1>2, <2>1, <3>1 DEF Handling
  <2>6. CASE Crash
    BY <1>2, <2>1, <2>6 DEF Crash, Handling
  <2>7. ASSUME NEW k \in Kind, Take(k)
        PROVE  \/ "last_seen" \in info'[p]
               \/ <<"online", p>> \in torn' \/ <<"unknown", p>> \in torn'
    BY <1>1, <1>2, <2>1, <2>7 DEF Take, Handling, FreePc, history
  <2> QED BY <2>2, <2>3, <2>4, <2>5, <2>6, <2>7, HandlingChange
<1> QED BY <1>3, <1>4 DEF SeenInv

\* Whoever is on the map has a last_seen time, unless the handler that put it
\* there is still running or a failure cut it short.
THEOREM SeenWhenShown == Spec => []ShownPeerHasLastSeen
<1>1. Init => SeenInv
  BY DEF Init, SeenInv, ShownPeerHasLastSeen, InMap, Online, Online2, Unknown,
      StatusKey, Status
<1>2. SeenInv => ShownPeerHasLastSeen
  BY DEF SeenInv
<1> QED BY <1>1, <1>2, SeenStep, TypeCorrect, PTL DEF Spec

------------------------------------------------------------------------------
(* Marci implements PeerMap *)

\* The map of peers after one key was written or removed.
LEMMA MapStep ==
    ASSUME TypeOK, NEW s \in Status, NEW p \in Peer, NEW v, NEW t \in Nat,
           val' = [val EXCEPT ![<<s, p>>] = v],
           ttl' = [ttl EXCEPT ![<<s, p>>] = t]
    PROVE  /\ v # Null => MapOf' = [MapOf EXCEPT ![p] = @ \cup {s}]
           /\ v = Null => MapOf' = [MapOf EXCEPT ![p] = @ \ {s}]
           /\ v = Null \/ t > 0 => DueOf' = DueOf \ {<<s, p>>}
<1>1. /\ val \in [StatusKey -> Version \cup {"unknown", Null}]
      /\ ttl \in [StatusKey -> Nat] /\ <<s, p>> \in StatusKey
  BY DEF TypeOK, StatusKey
<1>2. \A q \in Peer, r \in Status : <<r, q>> # <<s, p>> =>
         val'[<<r, q>>] = val[<<r, q>>] /\ ttl'[<<r, q>>] = ttl[<<r, q>>]
  BY <1>1 DEF StatusKey
<1>3. val'[<<s, p>>] = v /\ ttl'[<<s, p>>] = t
  BY <1>1
<1>4. ASSUME v # Null PROVE MapOf' = [MapOf EXCEPT ![p] = @ \cup {s}]
  <2>1. \A q \in Peer : {r \in Status : val'[<<r, q>>] # Null} =
           IF q = p THEN {r \in Status : val[<<r, q>>] # Null} \cup {s}
           ELSE {r \in Status : val[<<r, q>>] # Null}
    BY <1>2, <1>3, <1>4
  <2> QED BY <2>1 DEF MapOf
<1>5. ASSUME v = Null PROVE MapOf' = [MapOf EXCEPT ![p] = @ \ {s}]
  <2>1. \A q \in Peer : {r \in Status : val'[<<r, q>>] # Null} =
           IF q = p THEN {r \in Status : val[<<r, q>>] # Null} \ {s}
           ELSE {r \in Status : val[<<r, q>>] # Null}
    BY <1>2, <1>3, <1>5
  <2> QED BY <2>1 DEF MapOf
<1>6. ASSUME v = Null \/ t > 0 PROVE DueOf' = DueOf \ {<<s, p>>}
  <2>1. \A k \in StatusKey :
           (val'[k] # Null /\ ttl'[k] = 0) <=>
           (val[k] # Null /\ ttl[k] = 0 /\ k # <<s, p>>)
    BY <1>1, <1>3, <1>6
  <2> QED BY <2>1 DEF DueOf
<1> QED BY <1>4, <1>5, <1>6

\* The abstract map, its index and its failures do not change in a step that
\* leaves the keys and the failures of online handlers alone.
LEMMA MapStutter ==
    ASSUME UNCHANGED <<val, ttl, quick, lastUpdate>>, CutOf' = CutOf
    PROVE  UNCHANGED PM!vars
<1>1. MapOf' = MapOf /\ DueOf' = DueOf
  BY DEF MapOf, DueOf
<1> QED BY <1>1 DEF PM!vars

\* Every step of marci is a step of the abstract map, or leaves it unchanged.
LEMMA MapSimulation == MarciInv /\ [Next]_vars => [PM!Next]_(PM!vars)
<1> SUFFICES ASSUME MarciInv, [Next]_vars PROVE [PM!Next]_(PM!vars)
  OBVIOUS
<1>1. /\ TypeOK
      /\ val \in [StatusKey -> Version \cup {"unknown", Null}]
      /\ ttl \in [StatusKey -> Nat]
      /\ cur # Null => cur.kind \in Kind /\ cur.peer \in Peer
      /\ cur # Null /\ cur.kind = "online" => cur.version \in Version
      /\ IF pc \in FreePc
         THEN cur = Null
         ELSE /\ cur # Null
              /\ cur.kind = "online" => pc \in OnlinePc
              /\ cur.kind = "unknown" => pc \in UnknownPc
              /\ cur.kind = "reachable" => pc \in ReachablePc
  BY ReportFacts DEF MarciInv, TypeOK
<1>2. /\ pc \in OnlinePc \ GeoField => cur.kind = "online" /\ cur.peer \in Peer
      /\ pc \in UnknownPc => cur.kind = "unknown" /\ cur.peer \in Peer
      /\ pc \in ReachablePc \ GeoField => cur.kind = "reachable" /\ cur.peer \in Peer
  BY <1>1 DEF Kind, FreePc, OnlinePc, OnlineWritten, UnknownPc, ReachablePc,
              GeoField
<1>3. \A p \in Peer : PM!PeerStep(p) => PM!Next
  BY DEF PM!Next
<1>4. \A p \in Peer, s \in Status : s \in MapOf[p] <=> val[<<s, p>>] # Null
  BY DEF MapOf
<1>5. CASE OnlineSet
  <2> DEFINE s == IF cur.isEx THEN "online2" ELSE "online"
             p == cur.peer
  <2>1. /\ val' = [val EXCEPT ![<<s, p>>] = cur.version]
        /\ ttl' = [ttl EXCEPT ![<<s, p>>] = OnlineTimeout]
        /\ UNCHANGED <<quick, lastUpdate, torn>> /\ pc = "on_set"
    BY <1>5 DEF OnlineSet, SetEx, Goto, history, peerKept
  <2>2. p \in Peer /\ s \in Status /\ s \in PM!OnlineMarks /\ cur.version # Null
    BY <1>1, <1>2, <2>1, MarciAssumption
    DEF OnlinePc, GeoField, Status, PM!OnlineMarks, FreePc
  <2> HIDE DEF s
  <2>3. OnlineTimeout \in Nat /\ OnlineTimeout > 0
    BY MarciAssumption
  <2>4. /\ MapOf' = [MapOf EXCEPT ![p] = @ \cup {s}]
        /\ DueOf' = DueOf \ {<<s, p>>}
    BY <1>1, <2>1, <2>2, <2>3, MapStep
  <2>5. PM!ShowOnline(p, s)
    BY <2>1, <2>4 DEF PM!ShowOnline, CutOf
  <2> QED BY <1>3, <2>2, <2>5 DEF PM!PeerStep
<1>6. CASE OnlineExpire \/ UnknownExpire
  <2> DEFINE p == cur.peer
             k == <<"online", p>>
  <2>1. /\ ttl' = IF val[k] = Null THEN ttl ELSE [ttl EXCEPT ![k] = OnlineTimeout]
        /\ UNCHANGED <<val, quick, lastUpdate, torn>> /\ p \in Peer
    BY <1>2, <1>6 DEF OnlineExpire, UnknownExpire, ExpireIn, Goto, history,
          peerKept, OnlinePc, UnknownPc, GeoField
  <2>2. CutOf' = CutOf
    BY <2>1 DEF CutOf
  <2>3. CASE val[k] = Null
    BY <2>1, <2>2, <2>3, MapStutter
  <2>4. CASE val[k] # Null
    <3>1. k \in StatusKey /\ "online" \in MapOf[p]
      BY <1>4, <2>1, <2>4 DEF StatusKey, Status
    <3>2. \A j \in StatusKey : (val[j] # Null /\ ttl'[j] = 0) <=>
                               (val[j] # Null /\ ttl[j] = 0 /\ j # k)
      BY <1>1, <2>1, <2>4, <3>1, MarciAssumption
    <3>3. DueOf' = DueOf \ {k}
      BY <2>1, <3>2 DEF DueOf
    <3>4. MapOf' = MapOf
      BY <2>1 DEF MapOf
    <3>5. PM!Renew(p)
      BY <2>1, <2>2, <3>1, <3>3, <3>4 DEF PM!Renew
    <3> QED BY <1>3, <2>1, <3>5 DEF PM!PeerStep
  <2> QED BY <2>3, <2>4
<1>7. CASE UnknownSet
  <2> DEFINE p == cur.peer
  <2>1. /\ val' = [val EXCEPT ![<<"unknown", p>>] = "unknown"]
        /\ ttl' = [ttl EXCEPT ![<<"unknown", p>>] = UnknownTimeout]
        /\ UNCHANGED <<quick, lastUpdate, torn>> /\ pc = "un_set"
    BY <1>7 DEF UnknownSet, SetEx, peerKept
  <2>2. p \in Peer /\ "unknown" \in Status /\ "unknown" # Null
    BY <1>2, <2>1, MarciAssumption DEF UnknownPc, Status
  <2>3. "online" \notin MapOf[p] \/ p \in CutOf
    BY <1>4, <2>1, <2>2 DEF MarciInv, StatusInv, StatusKnown, Online, CutOf,
          Status
  <2>4. UnknownTimeout \in Nat /\ UnknownTimeout > 0
    BY MarciAssumption
  <2>5. /\ MapOf' = [MapOf EXCEPT ![p] = @ \cup {"unknown"}]
        /\ DueOf' = DueOf \ {<<"unknown", p>>}
    BY <1>1, <2>1, <2>2, <2>4, MapStep
  <2>6. PM!ShowUnknown(p)
    BY <2>1, <2>3, <2>5 DEF PM!ShowUnknown, CutOf
  <2> QED BY <1>3, <2>2, <2>6 DEF PM!PeerStep
<1>8. CASE OnlineDel
  <2> DEFINE p == cur.peer
  <2>1. /\ val' = [val EXCEPT ![<<"unknown", p>>] = Null]
        /\ ttl' = [ttl EXCEPT ![<<"unknown", p>>] = 0]
        /\ torn' = torn \ {<<cur.kind, p>>}
        /\ UNCHANGED <<quick, lastUpdate>> /\ pc = "on_del"
    BY <1>8 DEF OnlineDel, Del, Finish, history, peerKept
  <2>2. p \in Peer /\ "unknown" \in Status /\ cur.kind = "online" /\ cur # Null
    BY <1>1, <1>2, <2>1 DEF OnlinePc, OnlineWritten, GeoField, Status, FreePc
  <2>3. \/ MapOf[p] \cap PM!OnlineMarks # {}
        \/ "unknown" \notin MapOf[p]
        \/ p \in CutOf
    BY <1>4, <2>1, <2>2 DEF MarciInv, StatusInv, UnknownReplaced, Unknown,
          OnlineWritten, CutOf, Status, PM!OnlineMarks
  <2>4. CutOf' = CutOf \ {p}
    BY <2>1, <2>2 DEF CutOf
  <2>5. PM!ReplaceUnknown(p)
    BY <1>1, <2>1, <2>2, <2>3, <2>4, MapStep DEF PM!ReplaceUnknown
  <2> QED BY <1>3, <2>2, <2>5 DEF PM!PeerStep
<1>9. ASSUME NEW k \in StatusKey, KeyExpires(k) PROVE PM!Next
  <2>1. PICK s \in Status, p \in Peer : k = <<s, p>>
    BY DEF StatusKey
  <2>2. /\ val' = [val EXCEPT ![<<s, p>>] = Null]
        /\ ttl' = [ttl EXCEPT ![<<s, p>>] = 0]
        /\ UNCHANGED <<quick, lastUpdate, torn>>
    BY <1>9, <2>1 DEF KeyExpires, Del, history
  <2>3. <<s, p>> \in DueOf
    BY <1>9, <2>1 DEF KeyExpires, DueOf
  <2>4. s \in PM!Marks
    BY DEF PM!Marks, Status
  <2>5. PM!Expire(p, s)
    BY <1>1, <2>2, <2>3, MapStep DEF PM!Expire, CutOf
  <2> QED BY <1>3, <2>4, <2>5 DEF PM!PeerStep
<1>10. CASE TimePasses
  <2>1. /\ \A k \in StatusKey : val[k] # Null => ttl[k] > 0
        /\ UNCHANGED <<val, quick, lastUpdate, torn>>
    BY <1>10 DEF TimePasses, history
  <2>2. DueOf = {} /\ MapOf' = MapOf /\ CutOf' = CutOf
    BY <1>1, <2>1 DEF DueOf, MapOf, CutOf
  <2>3. DueOf' \in SUBSET {k \in PM!Marks \X Peer : k[1] \in MapOf[k[2]]}
    <3>1. DueOf' \subseteq {k \in StatusKey : val[k] # Null}
      BY <2>1 DEF DueOf
    <3>2. \A k \in StatusKey : val[k] # Null => k[1] \in MapOf[k[2]]
      BY <1>4 DEF StatusKey
    <3> QED BY <3>1, <3>2 DEF StatusKey, Status, PM!Marks
  <2>4. PM!Age
    BY <2>1, <2>2, <2>3 DEF PM!Age
  <2> QED BY <2>4 DEF PM!Next
<1>11. CASE ReachableQuick
  <2> DEFINE p == cur.peer
             n == IntoStr(cur.network)
  <2>1. /\ quick' = [quick EXCEPT ![p] = @ \cup {n}]
        /\ UNCHANGED <<val, ttl, lastUpdate, torn>> /\ pc = "re_quick"
    BY <1>11 DEF ReachableQuick, statusKept, history
  <2>2. p \in Peer /\ n \in NetworkStrings
    BY <1>1, <1>2, <2>1, ReportFacts, IntoStrType
    DEF TypeOK, FreePc, ReachablePc, GeoField
  <2>3. MapOf' = MapOf /\ DueOf' = DueOf /\ CutOf' = CutOf
    BY <2>1 DEF MapOf, DueOf, CutOf
  <2>4. PM!List(p, n)
    BY <2>1, <2>3 DEF PM!List
  <2> QED BY <1>3, <2>2, <2>4 DEF PM!PeerStep, PM!NetworkStrings,
          NetworkStrings, PM!Networks, Networks, PM!IntoStr, IntoStr
<1>12. CASE ReachableService \/ BroadcastService
  <2>1. /\ lastUpdate' = lastUpdate \/ lastUpdate' = TRUE
        /\ UNCHANGED <<val, ttl, quick>>
    BY <1>12 DEF ReachableService, BroadcastService, UpdateService, statusKept
  <2>2. MapOf' = MapOf /\ DueOf' = DueOf
    BY <2>1 DEF MapOf, DueOf
  <2>3. CutOf' = CutOf
    BY <1>2, <1>12 DEF ReachableService, BroadcastService, Finish, Goto, history,
          CutOf, ReachablePc, GeoField
  <2>4. CASE lastUpdate' = lastUpdate
    BY <2>1, <2>3, <2>4, MapStutter
  <2>5. CASE lastUpdate' = TRUE
    <3>1. PM!Update
      BY <2>1, <2>2, <2>3, <2>5 DEF PM!Update
    <3> QED BY <3>1 DEF PM!Next
  <2> QED BY <2>1, <2>4, <2>5
<1>13. CASE Crash \/ UnknownMisread
  <2>1. UNCHANGED <<val, ttl, quick, lastUpdate>>
    BY <1>13 DEF Crash, UnknownMisread, redis
  <2>2. MapOf' = MapOf /\ DueOf' = DueOf
    BY <2>1 DEF MapOf, DueOf
  <2>3. \/ CutOf' = CutOf
        \/ cur.peer \in Peer /\ CutOf' = CutOf \cup {cur.peer}
    <3>1. \/ torn' = torn
          \/ /\ cur.peer \in Peer
             /\ \E j \in Kind : torn' = torn \cup {<<j, cur.peer>>}
      BY <1>1, <1>2, <1>13 DEF Crash, UnknownMisread, UnknownPc, Kind
    <3> QED BY <3>1 DEF CutOf
  <2>4. CASE CutOf' = CutOf
    BY <2>1, <2>4, MapStutter
  <2>5. CASE cur.peer \in Peer /\ CutOf' = CutOf \cup {cur.peer}
    <3>1. PM!Interrupt(cur.peer)
      BY <2>1, <2>2, <2>5 DEF PM!Interrupt
    <3> QED BY <1>3, <2>5, <3>1 DEF PM!PeerStep
  <2> QED BY <2>3, <2>4, <2>5
<1>14. CASE UnknownSeen
  <2>1. CutOf' = CutOf
    BY <1>2, <1>14 DEF UnknownSeen, Finish, CutOf, UnknownPc
  <2> QED BY <1>14, <2>1, MapStutter DEF UnknownSeen, statusKept
<1>15. ASSUME UNCHANGED <<val, ttl, quick, lastUpdate, torn>>
       PROVE  UNCHANGED PM!vars
  <2>1. CutOf' = CutOf
    BY <1>15 DEF CutOf
  <2> QED BY <1>15, <2>1, MapStutter
<1> QED
  BY <1>5, <1>6, <1>7, <1>8, <1>9, <1>10, <1>11, <1>12, <1>13, <1>14, <1>15
  DEF Next, HandlerStep, MqttReceive, MqttForward, Take, OnlineStep, OnlineGet,
      OnlineMisread, OnlineAddr, OnlineFull, OnlineSeen, UnknownStep, UnknownGet,
      UnknownScard, WitnessesMisread, UnknownDel, ReachableStep, ReachableSadd,
      ReachableIp, ReachableNetwork, ReachableSeen, ReachableCountry,
      CountryMisread, WriteGeo, BroadcastKeys, BroadcastStep, BroadcastPublish,
      BroadcastMisread, BrokerAck, Restart, Goto, Lookup, vars, redis, history,
      statusKept, peerKept

\* Marci implements the abstract map of peers: what the query service may
\* assume of Redis holds whatever the interleaving, expiry or failure.
THEOREM Refinement == Spec => ImplementsPeerMap
<1>1. Init => PM!Init
  <2> SUFFICES ASSUME Init PROVE PM!Init
    OBVIOUS
  <2>1. MapOf = [p \in Peer |-> {}] /\ DueOf = {} /\ CutOf = {}
    BY DEF Init, MapOf, DueOf, CutOf, StatusKey
  <2> QED BY <2>1 DEF Init, PM!Init
<1> QED
  BY <1>1, Invariance, MapSimulation, PTL
  DEF Spec, ImplementsPeerMap, PM!Spec
==============================================================================
