---------------------------- MODULE ExposedProofs ----------------------------
(***************************************************************************)
(* Proofs about Exposed, for any number of peers, requests in flight and   *)
(* workers, and any number of changes of the map.                          *)
(***************************************************************************)
EXTENDS Exposed, TLAPS

(* The parts of the inductive invariant.                                   *)

\* The steps at which a request holds the Redis connection.
Holding == Mark \cup {"network", "rows", "health"}
Held == \A r \in Request : pc[r] \in Holding <=> client = r

\* A request is only at steps of its own endpoint.
PcKind ==
    \A r \in Request :
        /\ pc[r] \in {"check_data", "check_time", "cached", "network", "rows", "stamp"}
              => query[r].kind = "peer"
        /\ pc[r] \in Mark => query[r].kind \in {"peer", "peer_status"}
        /\ pc[r] = "health" => query[r].kind = "health"

\* What was there all the time is there now, and what is there now was seen;
\* nothing is watched while nobody holds the connection.
Watched ==
    /\ \A p \in Peer : kept[p] \subseteq map[p]
    /\ client # Nobody => \A p \in Peer : map[p] \subseteq seen[p]
    /\ client = Nobody => \A p \in Peer : seen[p] = {}

\* The marks that a request at some step has asked for.
ReadMarks(step) == IF step = "online2" THEN {"online"}
                   ELSE IF step = "unknown" THEN {"online", "online2"}
                   ELSE IF step = "rows" THEN Mark ELSE {}

\* What KEYS has returned was seen, and what was there throughout is returned.
FoundSound == \A m \in Mark : \A p \in found[m] : m \in seen[p]
FoundComplete ==
    \A r \in Request : Listing(r) => \A m \in ReadMarks(pc[r]), p \in Peer :
        m \in kept[p] => p \in found[m]

\* The peers still to be shown and the rows are of the network.
OfNetwork(r, p) == IntoStr(Network(r)) \in index[p]
IdsListed == \A r \in Request : Listing(r) => \A p \in ids : OfNetwork(r, p)
RowsSound ==
    \A r \in Request : Listing(r) => \A x \in rows :
        /\ OfNetwork(r, x.peer)
        /\ x.as \in seen[x.peer]
        /\ "online" \in kept[x.peer] => x.as = "online"

\* A mark that lasted and was not found was not read for a failure.
StatusMissed ==
    \A r \in Request : client = r /\ query[r].kind = "peer_status" =>
        \A m \in ReadMarks(pc[r]) : m \in kept[query[r].peer] => missed

\* A list is never younger than it is taken for; a request that stamps it has
\* replaced it just now and holds its lock.
Ages ==
    /\ \A w \in Worker : born[w] <= age[w]
    /\ \A r \in Request : pc[r] = "stamp" => dataLock[W(r)] = r /\ born[W(r)] = 0
    /\ \A r \in Request : pc[r] = "cached" => born[W(r)] <= CacheTtl

\* The list of a request that stamps it is still the one it has fetched.
OwnList ==
    \A r \in Request : pc[r] = "stamp" =>
        \A x \in data[W(r)] : x.peer \in Peer /\ OfNetwork(r, x.peer)

ListInv == Watched /\ FoundSound /\ FoundComplete /\ IdsListed /\ RowsSound
           /\ StatusMissed
ExposedInv == TypeOK /\ Held /\ PcKind /\ ListInv /\ Ages /\ OwnList

------------------------------------------------------------------------------

LEMMA QueryFacts ==
    ASSUME NEW q \in Query
    PROVE  /\ q.kind \in {"peer", "peer_status", "health"}
           /\ q.kind = "peer_status" => q.peer \in Peer
BY ExposedAssumption DEF PeerQuery, StatusQuery, HealthQuery

LEMMA Constants ==
    /\ CacheTtl \in Nat /\ Stale \in Nat /\ CacheTtl < Stale
    /\ \A r \in Request : W(r) \in Worker /\ r # Nobody
BY ExposedAssumption DEF Stale, W

LEMMA InitInv == Init => ExposedInv
<1> SUFFICES ASSUME Init PROVE ExposedInv
  OBVIOUS
<1> USE DEF Init, PM!Init
<1>1. TypeOK
  <2>1. updated \in BOOLEAN /\ missed \in BOOLEAN
    OBVIOUS
  <2>2. /\ age \in [Worker -> 0 .. Stale] /\ born \in [Worker -> 0 .. Stale]
        /\ changes \in 0 .. MaxChanges
    BY Constants, ExposedAssumption
  <2>3. answer \in [Request -> [is : Answers, rows : SUBSET Row]]
    BY DEF Plain, Answers
  <2> QED
    BY <2>1, <2>2, <2>3 DEF TypeOK, NoMark
<1>2. Held /\ PcKind
  BY Constants DEF Held, PcKind, Holding, Mark
<1>3. Watched /\ FoundSound
  BY DEF Watched, FoundSound, NoMark
<1>4. FoundComplete /\ IdsListed /\ RowsSound /\ StatusMissed
  BY Constants DEF FoundComplete, IdsListed, RowsSound, StatusMissed, Listing
<1>5. Ages
  BY Constants DEF Ages
<1>6. OwnList
  BY DEF OwnList
<1> QED
  BY <1>1, <1>2, <1>3, <1>4, <1>5, <1>6 DEF ExposedInv, ListInv

\* The steps of the abstract map keep its types, and a peer that is listed
\* under a network stays listed.
LEMMA MapType ==
    ASSUME map \in [Peer -> SUBSET Mark], due \in SUBSET (Mark \X Peer),
           index \in [Peer -> SUBSET NetworkStrings], updated \in BOOLEAN,
           cut \in SUBSET Peer, PM!Next
    PROVE  /\ map' \in [Peer -> SUBSET Mark] /\ due' \in SUBSET (Mark \X Peer)
           /\ index' \in [Peer -> SUBSET NetworkStrings]
           /\ updated' \in BOOLEAN /\ cut' \in SUBSET Peer
           /\ \A p \in Peer : index[p] \subseteq index'[p]
<1>1. CASE PM!Age
  BY <1>1 DEF PM!Age, PM!Marks, Mark
<1>2. CASE PM!Update
  BY <1>2 DEF PM!Update
<1>3. ASSUME NEW p \in Peer, PM!PeerStep(p)
      PROVE  /\ map' \in [Peer -> SUBSET Mark] /\ due' \in SUBSET (Mark \X Peer)
             /\ updated' \in BOOLEAN /\ cut' \in SUBSET Peer
  BY <1>3 DEF PM!PeerStep, PM!ShowOnline, PM!ShowUnknown, PM!ReplaceUnknown,
      PM!Renew, PM!Expire, PM!Interrupt, PM!List, PM!Marks, PM!OnlineMarks, Mark
<1>4. ASSUME NEW p \in Peer, PM!PeerStep(p)
      PROVE  /\ index' \in [Peer -> SUBSET NetworkStrings]
             /\ \A q \in Peer : index[q] \subseteq index'[q]
  <2>1. PM!NetworkStrings = NetworkStrings
    BY DEF PM!NetworkStrings, NetworkStrings, PM!Networks, Networks, PM!IntoStr,
        IntoStr
  <2>2. \/ index' = index
        \/ \E n \in NetworkStrings : index' = [index EXCEPT ![p] = @ \cup {n}]
    BY <1>4, <2>1 DEF PM!PeerStep, PM!ShowOnline, PM!ShowUnknown,
        PM!ReplaceUnknown, PM!Renew, PM!Expire, PM!Interrupt, PM!List
  <2> QED BY <2>2
<1> QED BY <1>1, <1>2, <1>3, <1>4 DEF PM!Next

\* What any step of a request leaves alone.
LEMMA StepFrame ==
    ASSUME NEW r \in Request, Step(r)
    PROVE  /\ UNCHANGED <<map, due, index, updated, cut, changes>>
           /\ query' = query
BY DEF Step, CheckData, CheckTime, Cached, LockClient, NetworkPanics, NetworkKeys,
      MarkKeys, AddRow, FetchFails, Fetched, Stamp, InMap, NoKeys, Health, Goto,
      Answer, redis

\* The rows of a list and other answers have their type.
LEMMA AnswerType ==
    /\ \A rs \in SUBSET Row : List(rs) \in [is : Answers, rows : SUBSET Row]
    /\ \A a \in Answers : Plain(a) \in [is : Answers, rows : SUBSET Row]
BY DEF List, Plain, Answers

\* The part of the type that belongs to a request and the cache.
LEMMA StepType ==
    ASSUME TypeOK, Held, PcKind, NEW r \in Request, Step(r)
    PROVE  TypeOK'
<1> DEFINE Pcs == Mark \cup {"idle", "check_data", "check_time", "cached",
                             "lock", "network", "rows", "stamp", "health"}
           Reply == [is : Answers, rows : SUBSET Row]
<1>1. /\ UNCHANGED <<map, due, index, updated, cut, changes>> /\ query' = query
  BY StepFrame
<1>2. W(r) \in Worker /\ data[W(r)] \in SUBSET Row
  BY Constants DEF TypeOK
<1>3. /\ pc \in [Request -> Pcs] /\ answer \in [Request -> Reply]
      /\ \A q \in Request : pc[q] # "idle" => query[q] # Nobody
  BY DEF TypeOK
\* Where the request goes, and what it answers.
<1> DEFINE Moved == /\ pc' \in [Request -> Pcs] /\ answer' \in [Request -> Reply]
                    /\ pc[r] # "idle"
                    /\ \A q \in Request : pc'[q] # "idle" => pc[q] # "idle"
<1>4. Moved
  <2>1. ASSUME NEW s \in Pcs, pc[r] # "idle", Goto(r, s) PROVE Moved
    BY <1>3, <2>1 DEF Goto
  <2>2. ASSUME NEW a \in Reply, pc[r] # "idle", Answer(r, a) PROVE Moved
    BY <1>3, <2>2 DEF Answer
  <2>3. CASE CheckData(r) \/ CheckTime(r) \/ LockClient(r) \/ NetworkKeys(r)
    BY <2>1, <2>3 DEF CheckData, CheckTime, LockClient, NetworkKeys, Mark
  <2>4. CASE MarkKeys(r)
    BY <2>1, <2>4 DEF MarkKeys, NextMark, Mark
  <2>5. CASE \E p \in Peer : AddRow(r, p)
    BY <1>3, <2>5 DEF AddRow
  <2>6. CASE Cached(r) \/ Stamp(r)
    BY <1>2, <2>2, <2>6, AnswerType DEF Cached, Stamp
  <2>7. CASE NetworkPanics(r) \/ FetchFails(r) \/ InMap(r)
    BY <2>2, <2>7, AnswerType DEF NetworkPanics, FetchFails, InMap, Answers, Mark
  <2>8. CASE Fetched(r)
    <3>1. List(rows) \in Reply
      BY AnswerType DEF TypeOK
    <3> QED BY <2>1, <2>2, <2>8, <3>1 DEF Fetched
  <2>9. CASE NoKeys(r)
    BY <2>1, <2>2, <2>9, AnswerType DEF NoKeys, NextMark, Mark, Answers
  <2>10. CASE Health(r)
    BY <2>2, <2>10, AnswerType DEF Health, Answers
  <2> QED
    BY <2>3, <2>4, <2>5, <2>6, <2>7, <2>8, <2>9, <2>10 DEF Step
\* The connection and the locals of get_peers.
<1>5. /\ client' \in Request \cup {Nobody}
      /\ ids' \in SUBSET Peer /\ found' \in [Mark -> SUBSET Peer]
      /\ rows' \in SUBSET Row
      /\ client' = Nobody => ids' = {} /\ rows' = {}
      /\ seen' \in [Peer -> SUBSET Mark] /\ kept' \in [Peer -> SUBSET Mark]
  <2>1. CASE client' = client /\ UNCHANGED <<local, watch>>
    BY <2>1 DEF TypeOK, local, watch
  <2>2. CASE Release
    BY <2>2 DEF Release, NoMark
  <2>3. CASE LockClient(r)
    BY <2>3 DEF LockClient, TypeOK, local
  <2>4. CASE NetworkKeys(r)
    BY <2>4, Constants DEF NetworkKeys, Listing, TypeOK, watch
  <2>5. CASE MarkKeys(r)
    <3>1. found' \in [Mark -> SUBSET Peer]
      BY <2>5 DEF MarkKeys, TypeOK
    <3> QED BY <2>5, <3>1, Constants DEF MarkKeys, Listing, TypeOK, watch
  <2>6. ASSUME NEW p \in Peer, AddRow(r, p) 
        PROVE  /\ client' \in Request \cup {Nobody}
               /\ ids' \in SUBSET Peer /\ found' \in [Mark -> SUBSET Peer]
               /\ rows' \in SUBSET Row
               /\ client' = Nobody => ids' = {} /\ rows' = {}
               /\ seen' \in [Peer -> SUBSET Mark] /\ kept' \in [Peer -> SUBSET Mark]
    <3>1. Shown(p) \in Mark
      BY DEF Shown, Mark
    <3>2. rows' \in SUBSET Row
      BY <2>6, <3>1 DEF AddRow, TypeOK, Row
    <3> QED BY <2>6, <3>2, Constants DEF AddRow, Listing, TypeOK, watch
  <2> QED
    BY <2>1, <2>2, <2>3, <2>4, <2>5, <2>6 DEF Step, CheckData, CheckTime, Cached,
        NetworkPanics, FetchFails, Fetched, Stamp, InMap, NoKeys, Health
\* The cache.
<1>6. /\ data' \in [Worker -> SUBSET Row]
      /\ dataLock' \in [Worker -> Request \cup {Nobody}]
      /\ age' \in [Worker -> 0..Stale] /\ born' \in [Worker -> 0..Stale]
  <2>1. CASE UNCHANGED cache
    BY <2>1 DEF TypeOK, cache
  <2>2. CASE Fetched(r)
    <3>1. /\ age' = age
          /\ \/ UNCHANGED <<data, dataLock, born>>
             \/ /\ data' = [data EXCEPT ![W(r)] = rows]
                /\ dataLock' = [dataLock EXCEPT ![W(r)] = r]
                /\ born' = [born EXCEPT ![W(r)] = 0]
      BY <2>2 DEF Fetched
    <3>2. /\ data \in [Worker -> SUBSET Row] /\ rows \in SUBSET Row
          /\ dataLock \in [Worker -> Request \cup {Nobody}]
          /\ age \in [Worker -> 0..Stale] /\ born \in [Worker -> 0..Stale]
      BY DEF TypeOK
    <3>3. CASE UNCHANGED <<data, dataLock, born>>
      BY <3>1, <3>2, <3>3
    <3>4. CASE /\ data' = [data EXCEPT ![W(r)] = rows]
               /\ dataLock' = [dataLock EXCEPT ![W(r)] = r]
               /\ born' = [born EXCEPT ![W(r)] = 0]
      <4>1. data' \in [Worker -> SUBSET Row]
        BY <3>2, <3>4
      <4>2. dataLock' \in [Worker -> Request \cup {Nobody}]
        BY <3>2, <3>4
      <4>3. 0 \in 0 .. Stale
        BY Constants
      <4>4. born' \in [Worker -> 0..Stale]
        BY <3>2, <3>4, <4>3
      <4> QED BY <3>1, <3>2, <4>1, <4>2, <4>4
    <3> QED BY <3>1, <3>3, <3>4
  <2>3. CASE Stamp(r)
    BY <2>3, <1>2, Constants DEF Stamp, TypeOK
  <2> QED
    BY <2>1, <2>2, <2>3 DEF Step, CheckData, CheckTime, Cached, LockClient,
        NetworkPanics, NetworkKeys, MarkKeys, AddRow, FetchFails, InMap, NoKeys,
        Health
<1>7. missed' \in BOOLEAN
  <2>1. missed \in BOOLEAN
    BY DEF TypeOK
  <2>2. \/ missed' = missed \/ missed' = FALSE
        \/ missed' = (missed \/ pc[r] \in map[query[r].peer])
    BY DEF Step, CheckData, CheckTime, Cached, LockClient, NetworkPanics,
        NetworkKeys, MarkKeys, AddRow, FetchFails, Fetched, Stamp, InMap, NoKeys,
        Health
  <2> QED BY <2>1, <2>2
<1> QED
  BY <1>1, <1>3, <1>4, <1>5, <1>6, <1>7 DEF TypeOK

\* The changes of the map, of time, and new requests.
LEMMA OtherType ==
    ASSUME TypeOK,
           \/ MapChanges \/ TimePasses
           \/ \E r \in Request, q \in Query : Arrive(r, q)
    PROVE  TypeOK'
<1>1. CASE MapChanges
  <2>1. /\ map' \in [Peer -> SUBSET Mark] /\ due' \in SUBSET (Mark \X Peer)
        /\ index' \in [Peer -> SUBSET NetworkStrings]
        /\ updated' \in BOOLEAN /\ cut' \in SUBSET Peer
    BY <1>1, MapType DEF MapChanges, TypeOK
  <2>2. changes' \in 0 .. MaxChanges
    BY <1>1, ExposedAssumption DEF MapChanges, TypeOK
  <2>3. seen' \in [Peer -> SUBSET Mark] /\ kept' \in [Peer -> SUBSET Mark]
    BY <1>1, <2>1 DEF MapChanges, TypeOK
  <2> QED
    BY <1>1, <2>1, <2>2, <2>3 DEF MapChanges, TypeOK, cache, local
<1>2. CASE TimePasses
  <2>1. age' \in [Worker -> 0 .. Stale] /\ born' \in [Worker -> 0 .. Stale]
    BY <1>2, Constants DEF TimePasses, TypeOK
  <2> QED BY <1>2, <2>1 DEF TimePasses, TypeOK, redis, local, watch
<1>3. ASSUME NEW r \in Request, NEW q \in Query, Arrive(r, q) PROVE TypeOK'
  <2>1. answer' \in [Request -> [is : Answers, rows : SUBSET Row]]
    BY <1>3, AnswerType DEF Arrive, TypeOK, Answers
  <2>2. /\ pc \in [Request -> Mark \cup {"idle", "check_data", "check_time",
                     "cached", "lock", "network", "rows", "stamp", "health"}]
        /\ query \in [Request -> Query \cup {Nobody}]
        /\ \A p \in Request : pc[p] # "idle" => query[p] # Nobody
    BY DEF TypeOK
  <2>3. pc' \in [Request -> Mark \cup {"idle", "check_data", "check_time",
                   "cached", "lock", "network", "rows", "stamp", "health"}]
    BY <1>3, <2>2 DEF Arrive
  <2>4. /\ query' \in [Request -> Query \cup {Nobody}]
        /\ \A p \in Request : pc'[p] # "idle" => query'[p] # Nobody
    BY <1>3, <2>2, ExposedAssumption DEF Arrive
  <2> QED
    BY <1>3, <2>1, <2>3, <2>4 DEF Arrive, TypeOK, redis, cache, local, watch
<1> QED BY <1>1, <1>2, <1>3

------------------------------------------------------------------------------
(* Who holds the connection *)

\* The steps that do not touch what the holder of the connection has read.
Apart(r) == CheckData(r) \/ CheckTime(r) \/ Cached(r) \/ NetworkPanics(r) \/ Stamp(r)

LEMMA ApartStep ==
    ASSUME NEW r \in Request, TypeOK, Apart(r)
    PROVE  /\ UNCHANGED <<client, ids, found, rows, seen, kept, missed>>
           /\ pc[r] \notin Holding /\ pc'[r] \notin Holding
           /\ \A q \in Request \ {r} : pc'[q] = pc[q]
<1>1. pc \in [Request -> Mark \cup {"idle", "check_data", "check_time",
                "cached", "lock", "network", "rows", "stamp", "health"}]
  BY DEF TypeOK
<1> QED
  BY <1>1 DEF Apart, CheckData, CheckTime, Cached, NetworkPanics, Stamp, Goto,
      Answer, Holding, Mark, local, watch

\* The steps at which the holder of the connection goes on with it.
Reads(r) == \/ NetworkKeys(r) \/ MarkKeys(r) \/ \E p \in Peer : AddRow(r, p)
            \/ NoKeys(r) /\ pc[r] # "unknown"

LEMMA ReadsStep ==
    ASSUME NEW r \in Request, TypeOK, Reads(r)
    PROVE  /\ client = r /\ client' = r
           /\ pc[r] \in Holding /\ pc'[r] \in Holding
           /\ \A q \in Request \ {r} : pc'[q] = pc[q]
           /\ UNCHANGED <<seen, kept>>
<1>1. pc \in [Request -> Mark \cup {"idle", "check_data", "check_time",
                "cached", "lock", "network", "rows", "stamp", "health"}]
  BY DEF TypeOK
<1>2. CASE NetworkKeys(r)
  BY <1>1, <1>2 DEF NetworkKeys, Goto, Listing, Holding, Mark, watch
<1>3. CASE MarkKeys(r)
  BY <1>1, <1>3 DEF MarkKeys, NextMark, Goto, Listing, Holding, Mark, watch
<1>4. CASE \E p \in Peer : AddRow(r, p)
  BY <1>1, <1>4 DEF AddRow, Listing, Holding, watch
<1>5. CASE NoKeys(r) /\ pc[r] # "unknown"
  BY <1>1, <1>5 DEF NoKeys, NextMark, Goto, Holding, Mark, watch
<1> QED BY <1>2, <1>3, <1>4, <1>5 DEF Reads

\* The steps at which it gives the connection back.
Leaves(r) == \/ FetchFails(r) \/ Fetched(r) \/ InMap(r) \/ Health(r)
             \/ NoKeys(r) /\ pc[r] = "unknown"

LEMMA LeavesStep ==
    ASSUME NEW r \in Request, TypeOK, Leaves(r)
    PROVE  /\ client = r /\ Release
           /\ pc[r] \in Holding /\ pc'[r] \notin Holding
           /\ \A q \in Request \ {r} : pc'[q] = pc[q]
<1>1. pc \in [Request -> Mark \cup {"idle", "check_data", "check_time",
                "cached", "lock", "network", "rows", "stamp", "health"}]
  BY DEF TypeOK
<1>2. CASE FetchFails(r)
  BY <1>1, <1>2 DEF FetchFails, Answer, Listing, Holding, Mark
<1>3. CASE Fetched(r)
  BY <1>1, <1>3 DEF Fetched, Goto, Answer, Listing, Holding, Mark
<1>4. CASE InMap(r) \/ Health(r) \/ (NoKeys(r) /\ pc[r] = "unknown")
  BY <1>1, <1>4 DEF InMap, Health, NoKeys, Answer, Holding, Mark
<1> QED BY <1>2, <1>3, <1>4 DEF Leaves

LEMMA LockStep ==
    ASSUME NEW r \in Request, TypeOK, LockClient(r)
    PROVE  /\ client = Nobody /\ client' = r
           /\ pc[r] \notin Holding /\ pc'[r] \in {"network", "health", "online"}
           /\ \A q \in Request \ {r} : pc'[q] = pc[q]
           /\ seen' = map /\ kept' = map
           /\ UNCHANGED <<ids, found, rows>>
<1>1. pc \in [Request -> Mark \cup {"idle", "check_data", "check_time",
                "cached", "lock", "network", "rows", "stamp", "health"}]
  BY DEF TypeOK
<1> QED BY <1>1 DEF LockClient, Goto, Holding, Mark, local

LEMMA StepCases ==
    ASSUME NEW r \in Request, Step(r)
    PROVE  Apart(r) \/ Reads(r) \/ Leaves(r) \/ LockClient(r)
BY DEF Step, Apart, Reads, Leaves

LEMMA StepHeld ==
    ASSUME TypeOK, Held, NEW r \in Request, Step(r)
    PROVE  Held'
<1>1. CASE Apart(r)
  BY <1>1, ApartStep DEF Held
<1>2. CASE Reads(r)
  BY <1>2, ReadsStep DEF Held
<1>3. CASE Leaves(r)
  BY <1>3, LeavesStep, Constants DEF Held, Release
<1>4. CASE LockClient(r)
  BY <1>4, LockStep, Constants DEF Held, Holding, Mark
<1> QED BY <1>1, <1>2, <1>3, <1>4, StepCases

LEMMA StepPcKind ==
    ASSUME TypeOK, PcKind, NEW r \in Request, Step(r)
    PROVE  PcKind'
<1>1. pc \in [Request -> Mark \cup {"idle", "check_data", "check_time",
                "cached", "lock", "network", "rows", "stamp", "health"}]
  BY DEF TypeOK
<1>2. query' = query
  BY StepFrame
<1>3. pc[r] # "idle" => query[r].kind \in {"peer", "peer_status", "health"}
  BY QueryFacts DEF TypeOK
<1>4. CASE CheckData(r) \/ CheckTime(r)
  BY <1>1, <1>2, <1>4 DEF PcKind, CheckData, CheckTime, Goto, Mark
<1>5. CASE Cached(r) \/ NetworkPanics(r) \/ Stamp(r) \/ FetchFails(r)
           \/ InMap(r) \/ Health(r)
  BY <1>1, <1>2, <1>5 DEF PcKind, Cached, NetworkPanics, Stamp, FetchFails, InMap,
      Health, Answer, Mark
<1>6. CASE LockClient(r)
  BY <1>1, <1>2, <1>3, <1>6 DEF PcKind, LockClient, Goto, Mark
<1>7. CASE NetworkKeys(r) \/ MarkKeys(r)
  BY <1>1, <1>2, <1>7 DEF PcKind, NetworkKeys, MarkKeys, NextMark, Listing, Goto, Mark
<1>8. CASE \E p \in Peer : AddRow(r, p)
  BY <1>2, <1>8 DEF PcKind, AddRow
<1>9. CASE Fetched(r)
  BY <1>1, <1>2, <1>9 DEF PcKind, Fetched, Listing, Goto, Answer, Mark
<1>10. CASE NoKeys(r)
  BY <1>1, <1>2, <1>10 DEF PcKind, NoKeys, NextMark, Goto, Answer, Mark
<1> QED
  BY <1>4, <1>5, <1>6, <1>7, <1>8, <1>9, <1>10 DEF Step

LEMMA OtherHeld ==
    ASSUME TypeOK, Held, PcKind,
           \/ MapChanges \/ TimePasses
           \/ \E r \in Request, q \in Query : Arrive(r, q)
    PROVE  Held' /\ PcKind'
<1>1. CASE MapChanges \/ TimePasses
  BY <1>1 DEF MapChanges, TimePasses, Held, PcKind
<1>2. ASSUME NEW r \in Request, NEW q \in Query, Arrive(r, q)
      PROVE  Held' /\ PcKind'
  <2>1. pc \in [Request -> Mark \cup {"idle", "check_data", "check_time",
                  "cached", "lock", "network", "rows", "stamp", "health"}]
        /\ query \in [Request -> Query \cup {Nobody}]
    BY DEF TypeOK
  <2>2. /\ pc[r] = "idle" /\ pc'[r] \in {"check_data", "lock"}
        /\ pc'[r] = "check_data" => q.kind = "peer"
        /\ query'[r] = q /\ client' = client
        /\ \A p \in Request \ {r} : pc'[p] = pc[p] /\ query'[p] = query[p]
    BY <1>2, <2>1 DEF Arrive
  <2>3. Held'
    BY <2>2 DEF Held, Holding, Mark
  <2>4. PcKind'
    BY <2>2 DEF PcKind, Mark
  <2> QED BY <2>3, <2>4
<1> QED BY <1>1, <1>2

------------------------------------------------------------------------------
(* What get_peers and peer_in_map have read *)

LEMMA ApartList ==
    ASSUME TypeOK, Held, ListInv, NEW r \in Request, Apart(r), Step(r)
    PROVE  ListInv'
<1>1. /\ UNCHANGED <<client, ids, found, rows, seen, kept, missed>>
      /\ client # r
      /\ \A q \in Request \ {r} : pc'[q] = pc[q]
  BY ApartStep DEF Held
<1>2. UNCHANGED <<map, index, query>>
  BY StepFrame
<1>3. Watched' /\ FoundSound'
  BY <1>1, <1>2 DEF ListInv, Watched, FoundSound
<1>4. FoundComplete'
  BY <1>1, <1>2 DEF ListInv, FoundComplete, Listing
<1>5. IdsListed' /\ RowsSound'
  BY <1>1, <1>2 DEF ListInv, IdsListed, RowsSound, Listing, OfNetwork, Network
<1>6. StatusMissed'
  BY <1>1, <1>2 DEF ListInv, StatusMissed
<1> QED BY <1>3, <1>4, <1>5, <1>6 DEF ListInv

LEMMA LeavesList ==
    ASSUME TypeOK, NEW r \in Request, Leaves(r)
    PROVE  ListInv'
<1>1. Release
  BY LeavesStep
<1>2. \A q \in Request : client' # q
  BY <1>1, Constants DEF Release
<1>3. Watched' /\ FoundSound'
  BY <1>1 DEF Watched, FoundSound, Release, NoMark
<1> QED
  BY <1>2, <1>3 DEF ListInv, FoundComplete, IdsListed, RowsSound, StatusMissed, Listing

LEMMA LockList ==
    ASSUME TypeOK, ListInv, NEW r \in Request, LockClient(r)
    PROVE  ListInv'
<1>1. /\ client = Nobody /\ client' = r /\ r # Nobody
      /\ pc'[r] \in {"network", "health", "online"}
      /\ seen' = map /\ kept' = map /\ map' = map
      /\ UNCHANGED <<ids, found, rows>>
  BY LockStep, Constants DEF LockClient, redis
<1>2. /\ ids = {} /\ rows = {} /\ found \in [Mark -> SUBSET Peer]
      /\ \A m \in Mark : found[m] = {}
  <2>1. \A m \in Mark : \A p \in found[m] : FALSE
    BY <1>1 DEF ListInv, FoundSound, Watched, TypeOK
  <2> QED BY <1>1, <2>1 DEF TypeOK
<1>3. Watched' /\ FoundSound'
  BY <1>1, <1>2 DEF Watched, FoundSound
<1>4. ReadMarks(pc'[r]) = {}
  BY <1>1 DEF ReadMarks
<1>5. FoundComplete' /\ StatusMissed'
  BY <1>1, <1>4 DEF FoundComplete, StatusMissed, Listing
<1>6. IdsListed' /\ RowsSound'
  BY <1>1, <1>2 DEF IdsListed, RowsSound
<1> QED BY <1>3, <1>5, <1>6 DEF ListInv

\* The three KEYS commands of the marks, in get_peers.
LEMMA MarkKeysList ==
    ASSUME TypeOK, ListInv, NEW r \in Request, MarkKeys(r)
    PROVE  ListInv'
<1>1. /\ client = r /\ client' = r /\ r # Nobody
      /\ query[r].kind = "peer" /\ pc[r] \in Mark
      /\ UNCHANGED <<map, index, query, ids, rows, seen, kept>>
      /\ found \in [Mark -> SUBSET Peer] /\ map \in [Peer -> SUBSET Mark]
      /\ found' = [found EXCEPT ![pc[r]] = {p \in Peer : pc[r] \in map[p]}]
      /\ pc'[r] = NextMark(pc[r])
  BY Constants DEF MarkKeys, Listing, redis, watch, Goto, TypeOK
<1>2. Watched'
  BY <1>1 DEF ListInv, Watched
<1>3. FoundSound'
  <2> SUFFICES ASSUME NEW m \in Mark, NEW p \in found'[m] PROVE m \in seen[p]
    BY <1>1 DEF FoundSound
  <2>1. CASE m = pc[r]
    BY <1>1, <2>1 DEF ListInv, Watched
  <2>2. CASE m # pc[r]
    BY <1>1, <2>2 DEF ListInv, FoundSound
  <2> QED BY <2>1, <2>2
<1>4. FoundComplete'
  <2> SUFFICES ASSUME NEW m \in ReadMarks(pc'[r]), NEW p \in Peer, m \in kept[p]
               PROVE  p \in found'[m]
    BY <1>1 DEF FoundComplete, Listing
  <2>1. ReadMarks(pc'[r]) = ReadMarks(pc[r]) \cup {pc[r]} /\ ReadMarks(pc[r]) \subseteq Mark
    BY <1>1 DEF ReadMarks, NextMark, Mark
  <2>2. CASE m = pc[r]
    BY <1>1, <2>2 DEF ListInv, Watched
  <2>3. CASE m # pc[r]
    BY <1>1, <2>1, <2>3 DEF ListInv, FoundComplete, Listing
  <2> QED BY <2>2, <2>3
<1>5. IdsListed' /\ RowsSound'
  BY <1>1 DEF ListInv, IdsListed, RowsSound, Listing, OfNetwork, Network
<1>6. StatusMissed'
  BY <1>1 DEF StatusMissed
<1> QED BY <1>2, <1>3, <1>4, <1>5, <1>6 DEF ListInv

\* A row is added with the mark of the first reply that has the peer.
LEMMA AddRowList ==
    ASSUME TypeOK, ListInv, NEW r \in Request, NEW p \in Peer, AddRow(r, p)
    PROVE  ListInv'
<1>1. /\ client = r /\ client' = r /\ r # Nobody
      /\ query[r].kind = "peer" /\ pc[r] = "rows" /\ p \in Pending
      /\ UNCHANGED <<map, index, query, pc, found, seen, kept, missed>>
      /\ rows' = rows \cup {[peer |-> p, as |-> Shown(p)]}
      /\ ids' \subseteq ids
  BY Constants DEF AddRow, Listing, redis, watch
<1>2. Watched' /\ FoundSound'
  BY <1>1 DEF ListInv, Watched, FoundSound
<1>3. FoundComplete' /\ StatusMissed'
  BY <1>1 DEF ListInv, FoundComplete, StatusMissed, Listing
<1>4. IdsListed'
  BY <1>1 DEF ListInv, IdsListed, Listing, OfNetwork, Network
<1>5. /\ OfNetwork(r, p) /\ Shown(p) \in Mark /\ p \in found[Shown(p)]
      /\ "online" \in kept[p] => Shown(p) = "online"
  <2>1. p \in ids /\ \E m \in Mark : p \in found[m]
    BY <1>1 DEF Pending
  <2>2. "online" \in kept[p] => p \in found["online"]
    BY <1>1 DEF ListInv, FoundComplete, Listing, ReadMarks, Mark
  <2>3. OfNetwork(r, p)
    BY <1>1, <2>1 DEF ListInv, IdsListed, Listing
  <2> QED BY <2>1, <2>2, <2>3 DEF Shown, Mark
<1>6. RowsSound'
  <2>1. Shown(p) \in seen[p]
    BY <1>5 DEF ListInv, FoundSound
  <2> QED
    BY <1>1, <1>5, <2>1 DEF ListInv, RowsSound, Listing, OfNetwork, Network
<1> QED BY <1>2, <1>3, <1>4, <1>6 DEF ListInv

LEMMA ReadsList ==
    ASSUME TypeOK, PcKind, ListInv, NEW r \in Request, Reads(r)
    PROVE  ListInv'
<1>1. CASE NetworkKeys(r)
  <2>1. /\ client = r /\ client' = r /\ r # Nobody
        /\ query[r].kind = "peer" /\ pc'[r] = "online"
        /\ UNCHANGED <<map, index, query, found, rows, seen, kept>>
        /\ ids' = {p \in Peer : OfNetwork(r, p)}
    BY <1>1, Constants DEF NetworkKeys, Listing, redis, watch, Goto, TypeOK, OfNetwork
  <2>2. Watched' /\ FoundSound'
    BY <2>1 DEF ListInv, Watched, FoundSound
  <2>3. FoundComplete' /\ StatusMissed'
    BY <2>1 DEF FoundComplete, StatusMissed, ReadMarks, Listing
  <2>4. IdsListed' /\ RowsSound'
    BY <2>1 DEF ListInv, IdsListed, RowsSound, Listing, OfNetwork, Network
  <2> QED BY <2>2, <2>3, <2>4 DEF ListInv
<1>2. CASE MarkKeys(r)
  BY <1>2, MarkKeysList
<1>3. CASE \E p \in Peer : AddRow(r, p)
  BY <1>3, AddRowList
<1>4. CASE NoKeys(r) /\ pc[r] # "unknown"
  <2>1. /\ client = r /\ client' = r /\ r # Nobody
        /\ query[r].kind = "peer_status" /\ pc[r] \in {"online", "online2"}
        /\ UNCHANGED <<map, index, query, ids, found, rows, seen, kept>>
        /\ missed' = (missed \/ pc[r] \in map[query[r].peer])
        /\ pc'[r] = NextMark(pc[r])
    BY <1>4, Constants DEF NoKeys, redis, local, watch, Goto, TypeOK, Mark
  <2>2. Watched' /\ FoundSound'
    BY <2>1 DEF ListInv, Watched, FoundSound
  <2>3. FoundComplete' /\ IdsListed' /\ RowsSound'
    BY <2>1 DEF FoundComplete, IdsListed, RowsSound, Listing
  <2>4. StatusMissed'
    <3>1. ReadMarks(pc'[r]) = ReadMarks(pc[r]) \cup {pc[r]}
      BY <2>1 DEF ReadMarks, NextMark, Mark
    <3>2. query[r].peer \in Peer
      BY <2>1, QueryFacts, ExposedAssumption DEF TypeOK, Mark
    <3>3. \A m \in ReadMarks(pc[r]) : m \in kept[query[r].peer] => missed
      BY <2>1 DEF ListInv, StatusMissed
    <3>4. pc[r] \in kept[query[r].peer] => pc[r] \in map[query[r].peer]
      BY <3>2 DEF ListInv, Watched
    <3> QED BY <2>1, <3>1, <3>3, <3>4 DEF StatusMissed
  <2> QED BY <2>2, <2>3, <2>4 DEF ListInv
<1> QED BY <1>1, <1>2, <1>3, <1>4 DEF Reads

LEMMA StepList ==
    ASSUME TypeOK, Held, PcKind, ListInv, NEW r \in Request, Step(r)
    PROVE  ListInv'
BY StepCases, ApartList, ReadsList, LeavesList, LockList

\* The control centre may do anything while the list is fetched.
LEMMA OtherList ==
    ASSUME TypeOK, Held, ListInv,
           \/ MapChanges \/ TimePasses
           \/ \E r \in Request, q \in Query : Arrive(r, q)
    PROVE  ListInv'
<1>1. CASE MapChanges
  <2>1. /\ map' \in [Peer -> SUBSET Mark] /\ map \in [Peer -> SUBSET Mark]
        /\ \A p \in Peer : index[p] \subseteq index'[p]
        /\ index' \in [Peer -> SUBSET NetworkStrings]
    BY <1>1, MapType DEF MapChanges, TypeOK
  <2>2. /\ UNCHANGED <<client, pc, query, ids, found, rows, missed>>
        /\ client # Nobody => \A p \in Peer : seen'[p] = seen[p] \cup map'[p]
        /\ client = Nobody => \A p \in Peer : seen'[p] = {}
        /\ \A p \in Peer : kept'[p] = kept[p] \cap map'[p]
        /\ found \in [Mark -> SUBSET Peer] /\ rows \in SUBSET Row /\ ids \in SUBSET Peer
    BY <1>1 DEF MapChanges, local, TypeOK
  <2>3. Watched'
    BY <2>1, <2>2 DEF Watched
  <2>4. FoundSound'
    BY <2>1, <2>2 DEF ListInv, FoundSound, Watched
  <2>5. FoundComplete'
    BY <2>1, <2>2 DEF ListInv, FoundComplete, Listing
  <2>6. IdsListed'
    BY <2>1, <2>2 DEF ListInv, IdsListed, Listing, OfNetwork, Network
  <2>7. RowsSound'
    <3> SUFFICES ASSUME NEW r \in Request, Listing(r), NEW x \in rows
                 PROVE  /\ OfNetwork(r, x.peer)'
                        /\ x.as \in seen'[x.peer]
                        /\ "online" \in kept'[x.peer] => x.as = "online"
      BY <2>2 DEF RowsSound, Listing
    <3>1. x.peer \in Peer
      BY <2>2 DEF Row
    <3>2. /\ OfNetwork(r, x.peer) /\ x.as \in seen[x.peer]
          /\ "online" \in kept[x.peer] => x.as = "online"
      BY DEF ListInv, RowsSound
    <3>3. OfNetwork(r, x.peer)'
      BY <2>1, <2>2, <3>1, <3>2 DEF OfNetwork, Network
    <3>4. client # Nobody
      BY Constants DEF Listing
    <3> QED BY <2>2, <3>1, <3>2, <3>3, <3>4
  <2>8. StatusMissed'
    <3> SUFFICES ASSUME NEW r \in Request, client = r, query[r].kind = "peer_status",
                        NEW m \in ReadMarks(pc[r]), m \in kept'[query[r].peer]
                 PROVE  missed
      BY <2>2 DEF StatusMissed
    <3>1. query[r].peer \in Peer
      BY QueryFacts DEF Held, Holding, TypeOK, Mark
    <3> QED BY <2>2, <3>1 DEF ListInv, StatusMissed
  <2> QED BY <2>3, <2>4, <2>5, <2>6, <2>7, <2>8 DEF ListInv
<1>2. CASE TimePasses
  BY <1>2 DEF TimePasses, redis, local, watch, ListInv, Watched, FoundSound,
      FoundComplete, IdsListed, RowsSound, StatusMissed, Listing, OfNetwork, Network
<1>3. ASSUME NEW r \in Request, NEW q \in Query, Arrive(r, q)
      PROVE  ListInv'
  <2>1. /\ UNCHANGED <<map, index, client, ids, found, rows, seen, kept, missed>>
        /\ client # r
        /\ \A p \in Request \ {r} : pc'[p] = pc[p] /\ query'[p] = query[p]
    BY <1>3 DEF Arrive, Held, Holding, Mark, redis, local, watch, TypeOK
  <2>2. Watched' /\ FoundSound'
    BY <2>1 DEF ListInv, Watched, FoundSound
  <2>3. FoundComplete' /\ StatusMissed'
    BY <2>1 DEF ListInv, FoundComplete, StatusMissed, Listing
  <2>4. IdsListed' /\ RowsSound'
    BY <2>1 DEF ListInv, IdsListed, RowsSound, Listing, OfNetwork, Network
  <2> QED BY <2>2, <2>3, <2>4 DEF ListInv
<1> QED BY <1>1, <1>2, <1>3

------------------------------------------------------------------------------
(* The cached lists *)

LEMMA StepAges ==
    ASSUME TypeOK, Ages, NEW r \in Request, Step(r)
    PROVE  Ages'
<1>1. /\ pc \in [Request -> Mark \cup {"idle", "check_data", "check_time",
                   "cached", "lock", "network", "rows", "stamp", "health"}]
      /\ dataLock \in [Worker -> Request \cup {Nobody}]
      /\ age \in [Worker -> 0..Stale] /\ born \in [Worker -> 0..Stale]
      /\ \A q \in Request : W(q) \in Worker /\ q # Nobody /\ W(q)' = W(q)
      /\ CacheTtl \in Nat /\ Stale \in Nat
  BY Constants DEF TypeOK, W
<1>2. CASE CheckTime(r)
  <2>1. /\ UNCHANGED <<dataLock, age, born>>
        /\ \A q \in Request \ {r} : pc'[q] = pc[q]
        /\ pc'[r] # "stamp" /\ (pc'[r] = "cached" => ~(age[W(r)] > CacheTtl))
    BY <1>1, <1>2 DEF CheckTime, Goto, cache
  <2>2. pc'[r] = "cached" => born[W(r)] <= CacheTtl
    BY <1>1, <2>1 DEF Ages
  <2> HIDE DEF W
  <2> QED BY <1>1, <2>1, <2>2 DEF Ages
<1>3. CASE Stamp(r)
  <2>1. /\ dataLock[W(r)] = r /\ born[W(r)] = 0 /\ born' = born
        /\ age' = [age EXCEPT ![W(r)] = 0]
        /\ dataLock' = [dataLock EXCEPT ![W(r)] = Nobody]
        /\ pc'[r] = "idle" /\ \A q \in Request \ {r} : pc'[q] = pc[q]
    BY <1>1, <1>3 DEF Stamp, Answer, Ages
  <2>2. \A w \in Worker : born'[w] <= age'[w]
    BY <1>1, <2>1 DEF Ages
  <2>3. \A q \in Request : pc'[q] = "stamp" => dataLock'[W(q)] = q /\ born'[W(q)] = 0
    BY <1>1, <2>1 DEF Ages
  <2>4. \A q \in Request : pc'[q] = "cached" => born'[W(q)] <= CacheTtl
    BY <1>1, <2>1 DEF Ages
  <2> QED BY <1>1, <2>2, <2>3, <2>4 DEF Ages
<1>4. CASE Fetched(r)
  <2>0. \A q \in Request \ {r} : pc'[q] = pc[q]
    BY <1>1, <1>4 DEF Fetched, Goto, Answer
  <2>1. CASE /\ dataLock[W(r)] = Nobody
             /\ dataLock' = [dataLock EXCEPT ![W(r)] = r]
             /\ born' = [born EXCEPT ![W(r)] = 0]
             /\ Goto(r, "stamp")
    <3>1. age' = age /\ pc'[r] = "stamp"
      BY <1>1, <1>4, <2>1 DEF Fetched, Goto
    <3>2. \A w \in Worker : born'[w] <= age'[w]
      BY <1>1, <2>1, <3>1 DEF Ages
    <3>3. \A q \in Request : pc'[q] = "stamp" => dataLock'[W(q)] = q /\ born'[W(q)] = 0
      BY <1>1, <2>0, <2>1, <3>1 DEF Ages
    <3>4. \A q \in Request : pc'[q] = "cached" => born'[W(q)] <= CacheTtl
      BY <1>1, <2>0, <2>1, <3>1 DEF Ages
    <3> QED BY <1>1, <3>2, <3>3, <3>4 DEF Ages
  <2>2. CASE Answer(r, List(rows)) /\ UNCHANGED <<data, dataLock, born>>
    <3>1. UNCHANGED <<dataLock, born, age>> /\ pc'[r] = "idle"
      BY <1>1, <1>4, <2>2 DEF Fetched, Answer
    <3> QED BY <1>1, <2>0, <3>1 DEF Ages
  <2> QED BY <1>4, <2>1, <2>2 DEF Fetched
<1>5. CASE ~(CheckTime(r) \/ Stamp(r) \/ Fetched(r))
  <2>1. /\ UNCHANGED <<dataLock, age, born>>
        /\ \A q \in Request \ {r} : pc'[q] = pc[q]
        /\ pc'[r] \notin {"stamp", "cached"}
    <3>1. CASE CheckData(r) \/ Cached(r) \/ LockClient(r) \/ NetworkPanics(r)
               \/ NetworkKeys(r) \/ FetchFails(r) \/ InMap(r) \/ Health(r)
      BY <1>1, <3>1 DEF CheckData, Cached, LockClient, NetworkPanics, NetworkKeys,
          FetchFails, InMap, Health, Goto, Answer, cache
    <3>2. CASE MarkKeys(r) \/ NoKeys(r) \/ \E p \in Peer : AddRow(r, p)
      BY <1>1, <3>2 DEF MarkKeys, NoKeys, AddRow, NextMark, Goto, Answer, cache
    <3> QED BY <1>5, <3>1, <3>2 DEF Step
  <2> QED BY <1>1, <2>1 DEF Ages
<1> QED BY <1>2, <1>3, <1>4, <1>5

LEMMA OtherAges ==
    ASSUME TypeOK, Ages,
           \/ MapChanges \/ TimePasses
           \/ \E r \in Request, q \in Query : Arrive(r, q)
    PROVE  Ages'
<1>1. CASE MapChanges
  BY <1>1 DEF MapChanges, cache, Ages, W
<1>2. CASE TimePasses
  <2>1. /\ age \in [Worker -> 0..Stale] /\ born \in [Worker -> 0..Stale]
        /\ Stale \in Nat /\ \A w \in Worker : born[w] <= age[w]
    BY Constants DEF TypeOK, Ages
  <2>2. \A w \in Worker : born'[w] <= age'[w]
    BY <1>2, <2>1 DEF TimePasses
  <2> QED BY <1>2, <2>2 DEF TimePasses, Ages
<1>3. ASSUME NEW r \in Request, NEW q \in Query, Arrive(r, q)
      PROVE  Ages'
  <2>1. /\ UNCHANGED <<dataLock, age, born>>
        /\ \A p \in Request \ {r} : pc'[p] = pc[p]
        /\ pc'[r] \notin {"stamp", "cached"}
    BY <1>3 DEF Arrive, TypeOK, cache
  <2> QED BY <2>1 DEF Ages, W
<1> QED BY <1>1, <1>2, <1>3

\* Nobody replaces the list of a request that holds its lock.
LEMMA StepOwn ==
    ASSUME TypeOK, RowsSound, Ages, OwnList, NEW r \in Request, Step(r)
    PROVE  OwnList'
<1>1. /\ query' = query /\ index' = index
      /\ pc \in [Request -> Mark \cup {"idle", "check_data", "check_time", "cached",
                                     "lock", "network", "rows", "stamp", "health"}]
      /\ data \in [Worker -> SUBSET Row] /\ rows \in SUBSET Row
      /\ \A q \in Request : W(q) \in Worker /\ q # Nobody
  BY StepFrame, Constants DEF TypeOK
<1>2. \A q \in Request, p \in Peer : OfNetwork(q, p)' <=> OfNetwork(q, p)
  BY <1>1 DEF OfNetwork, Network
<1>3. CASE data' = data /\ \A q \in Request : pc'[q] = "stamp" => pc[q] = "stamp"
  BY <1>2, <1>3 DEF OwnList, W
<1>4. CASE /\ Listing(r) /\ dataLock[W(r)] = Nobody
           /\ data' = [data EXCEPT ![W(r)] = rows] /\ Goto(r, "stamp")
  <2>1. \A x \in rows : x.peer \in Peer /\ OfNetwork(r, x.peer)
    BY <1>1, <1>4 DEF RowsSound, Row
  <2>2. data'[W(r)] = rows /\ \A w \in Worker \ {W(r)} : data'[w] = data[w]
    BY <1>1, <1>4
  <2>3. \A q \in Request \ {r} : pc'[q] = "stamp" => pc[q] = "stamp" /\ W(q) # W(r)
    <3>1. \A q \in Request \ {r} : pc'[q] = pc[q]
      BY <1>1, <1>4 DEF Goto
    <3> QED BY <1>1, <1>4, <3>1 DEF Ages
  <2> SUFFICES ASSUME NEW q \in Request, pc'[q] = "stamp", NEW x \in data'[W(q)]
               PROVE  x.peer \in Peer /\ OfNetwork(q, x.peer)'
    BY DEF OwnList, W
  <2>4. CASE q = r
    BY <1>2, <2>1, <2>2, <2>4
  <2>5. CASE q # r
    <3>1. pc[q] = "stamp" /\ x \in data[W(q)]
      BY <1>1, <2>2, <2>3, <2>5
    <3> QED BY <1>2, <3>1 DEF OwnList
  <2> QED BY <2>4, <2>5
<1>5. CASE Fetched(r)
  <2>1. CASE Answer(r, List(rows)) /\ UNCHANGED <<data, dataLock, born>>
    BY <1>1, <1>3, <2>1 DEF Answer
  <2> QED BY <1>4, <1>5, <2>1 DEF Fetched
<1>6. CASE ~Fetched(r)
  <2>1. data' = data
    BY <1>6 DEF Step, CheckData, CheckTime, Cached, LockClient, NetworkPanics,
        NetworkKeys, MarkKeys, AddRow, FetchFails, Stamp, InMap, NoKeys, Health,
        cache
  <2>2. \A q \in Request : pc'[q] = "stamp" => pc[q] = "stamp"
    <3>1. CASE \/ CheckData(r) \/ CheckTime(r) \/ Cached(r) \/ LockClient(r)
               \/ NetworkPanics(r) \/ NetworkKeys(r) \/ FetchFails(r)
      BY <1>1, <3>1 DEF CheckData, CheckTime, Cached, LockClient, NetworkPanics,
          NetworkKeys, FetchFails, Goto, Answer
    <3>2. CASE \/ MarkKeys(r) \/ NoKeys(r) \/ (\E p \in Peer : AddRow(r, p))
               \/ Stamp(r) \/ InMap(r) \/ Health(r)
      BY <1>1, <3>2 DEF MarkKeys, NoKeys, AddRow, Stamp, InMap, Health, NextMark,
          Goto, Answer
    <3> QED BY <1>6, <3>1, <3>2 DEF Step
  <2> QED BY <1>3, <2>1, <2>2
<1> QED BY <1>5, <1>6

LEMMA OtherOwn ==
    ASSUME TypeOK, OwnList,
           \/ MapChanges \/ TimePasses
           \/ \E r \in Request, q \in Query : Arrive(r, q)
    PROVE  OwnList'
<1>1. \A p \in Peer : index[p] \subseteq index'[p]
  <2>1. CASE MapChanges
    BY <2>1, MapType DEF MapChanges, TypeOK
  <2> QED BY <2>1 DEF TimePasses, Arrive, redis
<1>2. data' = data
  BY DEF MapChanges, TimePasses, Arrive, cache
<1>3. \A r \in Request : pc'[r] = "stamp" => pc[r] = "stamp" /\ query'[r] = query[r]
  <2>1. CASE MapChanges \/ TimePasses
    BY <2>1 DEF MapChanges, TimePasses
  <2>2. ASSUME NEW r \in Request, NEW q \in Query, Arrive(r, q)
        PROVE  \A p \in Request : pc'[p] = "stamp" =>
                   pc[p] = "stamp" /\ query'[p] = query[p]
    BY <2>2 DEF Arrive, TypeOK
  <2> QED BY <2>1, <2>2
<1> QED BY <1>1, <1>2, <1>3 DEF OwnList, OfNetwork, Network, W

------------------------------------------------------------------------------
(* The theorems *)

LEMMA NextInv == ExposedInv /\ [Next]_vars => ExposedInv'
<1> SUFFICES ASSUME ExposedInv, [Next]_vars PROVE ExposedInv'
  OBVIOUS
<1>1. ASSUME NEW r \in Request, Step(r) PROVE ExposedInv'
  BY <1>1, StepType, StepHeld, StepPcKind, StepList, StepAges, StepOwn
     DEF ExposedInv, ListInv
<1>2. CASE \/ MapChanges \/ TimePasses
           \/ \E r \in Request, q \in Query : Arrive(r, q)
  BY <1>2, OtherType, OtherHeld, OtherList, OtherAges, OtherOwn DEF ExposedInv
<1>3. CASE UNCHANGED vars
  <2> USE <1>3 DEF vars, redis, cache, local, watch
  <2>1. TypeOK'
    BY DEF ExposedInv, TypeOK
  <2>2. Held' /\ PcKind'
    BY DEF ExposedInv, Held, PcKind
  <2>3. Watched' /\ FoundSound' /\ FoundComplete'
    BY DEF ExposedInv, ListInv, Watched, FoundSound, FoundComplete, Listing
  <2>4. IdsListed' /\ RowsSound' /\ StatusMissed'
    BY DEF ExposedInv, ListInv, IdsListed, RowsSound, StatusMissed, Listing,
        OfNetwork, Network
  <2>5. Ages'
    BY DEF ExposedInv, Ages, W
  <2>6. OwnList'
    BY DEF ExposedInv, OwnList, OfNetwork, Network, W
  <2> QED BY <2>1, <2>2, <2>3, <2>4, <2>5, <2>6 DEF ExposedInv, ListInv
<1> QED BY <1>1, <1>2, <1>3 DEF Next

\* Every variable keeps its type, and the locals of get_peers are empty while
\* nobody holds the connection.
THEOREM TypeCorrect == Spec => []TypeOK
<1>1. ExposedInv => TypeOK
  BY DEF ExposedInv
<1> QED
  BY <1>1, InitInv, NextInv, PTL DEF Spec

\* get_peers shows only peers of the network, each with a mark it had while the
\* list was fetched, online if it was online throughout: for any changes the
\* control centre makes between the KEYS commands.
THEOREM ListsSound == Spec => []ListSound
<1>1. ExposedInv => ListSound
  BY DEF ExposedInv, ListInv, RowsSound, OfNetwork, ListSound
<1> QED
  BY <1>1, InitInv, NextInv, PTL DEF Spec

\* get_peers leaves out no peer of the network that kept one of its marks while
\* the list was fetched.
THEOREM ListsComplete == Spec => []ListComplete
<1>1. ExposedInv => ListComplete
  <2> SUFFICES ASSUME ExposedInv, NEW r \in Request, Listing(r), pc[r] = "rows",
                      Pending = {}, NEW p \in ids
               PROVE  kept[p] = {}
    BY DEF ListComplete
  <2>1. \A m \in Mark : p \notin found[m]
    BY DEF Pending
  <2>2. p \in Peer /\ kept[p] \subseteq Mark
    BY DEF ExposedInv, TypeOK
  <2>3. \A m \in Mark : m \in kept[p] => p \in found[m]
    BY <2>2 DEF ExposedInv, ListInv, FoundComplete, ReadMarks, Mark
  <2> QED BY <2>1, <2>2, <2>3
<1> QED
  BY <1>1, InitInv, NextInv, PTL DEF Spec

\* /peer_status finds only a peer that was on the map during the request, and
\* misses one whose mark lasted only if a failed KEYS was taken for an empty one.
THEOREM StatusIsRegular == Spec => StatusRegular
<1> DEFINE Goal(r) ==
      client = r /\ client' # r /\ query[r].kind = "peer_status" =>
         /\ answer'[r].is = "in_map" => seen[query[r].peer] # {}
         /\ answer'[r].is = "not_in_map" => kept[query[r].peer] = {} \/ missed'
<1>1. ASSUME ExposedInv, [Next]_vars, NEW r \in Request PROVE Goal(r)
  <2> SUFFICES ASSUME client = r, client' # r, query[r].kind = "peer_status"
               PROVE  /\ answer'[r].is = "in_map" => seen[query[r].peer] # {}
                      /\ answer'[r].is = "not_in_map" =>
                            kept[query[r].peer] = {} \/ missed'
    OBVIOUS
  <2>1. /\ pc[r] \in Holding /\ query[r].peer \in Peer
        /\ answer \in [Request -> [is : Answers, rows : SUBSET Row]]
    BY <1>1, QueryFacts DEF ExposedInv, Held, TypeOK, Holding, Mark
  <2>2. InMap(r) \/ (NoKeys(r) /\ pc[r] = "unknown")
    <3>1. PICK q \in Request : Step(q)
      BY <1>1 DEF Next, vars, MapChanges, TimePasses, Arrive
    <3>2. q = r /\ Leaves(r)
      BY <1>1, <3>1, StepCases, ApartStep, ReadsStep, LeavesStep, LockStep, Constants
         DEF ExposedInv
    <3> QED
      BY <1>1, <3>2 DEF Leaves, FetchFails, Fetched, Health, Listing, ExposedInv, PcKind
  <2>3. CASE InMap(r)
    <3>1. answer'[r].is = "in_map" /\ pc[r] \in map[query[r].peer]
      BY <2>1, <2>3 DEF InMap, Answer, Plain
    <3> QED
      BY <1>1, <2>1, <3>1, Constants DEF ExposedInv, ListInv, Watched
  <2>4. CASE NoKeys(r) /\ pc[r] = "unknown"
    <3>1. /\ answer'[r].is = "not_in_map"
          /\ missed' = (missed \/ "unknown" \in map[query[r].peer])
      BY <2>1, <2>4 DEF NoKeys, Answer, Plain
    <3>2. kept[query[r].peer] \subseteq Mark /\ kept[query[r].peer] \subseteq map[query[r].peer]
      BY <1>1, <2>1 DEF ExposedInv, TypeOK, ListInv, Watched
    <3>3. \A m \in {"online", "online2"} : m \in kept[query[r].peer] => missed
      BY <1>1, <2>4 DEF ExposedInv, ListInv, StatusMissed, ReadMarks
    <3> QED BY <3>1, <3>2, <3>3 DEF Mark
  <2> QED BY <2>2, <2>3, <2>4
<1>2. ExposedInv /\ [Next]_vars => [\A r \in Request : Goal(r)]_vars
  BY <1>1
<1> QED
  BY <1>2, InitInv, NextInv, PTL DEF Spec, StatusRegular

\* A list from the cache was fetched at most CacheTtl ago, although the check of
\* the time and the answer are separate steps.
THEOREM CacheFresh == Spec => CachedIsFresh
<1>1. ExposedInv /\ [Next]_vars =>
        [\A r \in Request : Cached(r) => born[W(r)] <= CacheTtl]_vars
  BY DEF ExposedInv, Ages, Cached
<1> QED
  BY <1>1, InitInv, NextInv, PTL DEF Spec, CachedIsFresh

\* A request that has fetched a list is answered with a list of the network it
\* asked for, whatever other requests of the worker ask for and cache meanwhile.
THEOREM OwnLists == Spec => FreshListIsOwn
<1> DEFINE Goal(r) ==
      pc[r] \in {"rows", "stamp"} /\ pc'[r] = "idle" =>
         \A x \in answer'[r].rows : IntoStr(Network(r)) \in index[x.peer]
<1>1. ASSUME ExposedInv, [Next]_vars, NEW r \in Request PROVE Goal(r)
  <2> SUFFICES ASSUME pc[r] \in {"rows", "stamp"}, pc'[r] = "idle",
                      NEW x \in answer'[r].rows
               PROVE  OfNetwork(r, x.peer)
    BY DEF OfNetwork
  <2>1. /\ answer \in [Request -> [is : Answers, rows : SUBSET Row]]
        /\ pc \in [Request -> Mark \cup {"idle", "check_data", "check_time", "cached",
                                     "lock", "network", "rows", "stamp", "health"}]
    BY <1>1 DEF ExposedInv, TypeOK
  <2>2. PICK q \in Request : Step(q)
    BY <1>1, <2>1 DEF Next, vars, MapChanges, TimePasses, Arrive
  <2>3. \A p \in Request \ {q} : pc'[p] = pc[p]
    BY <2>1, <2>2 DEF Step, CheckData, CheckTime, Cached, LockClient, NetworkPanics,
        NetworkKeys, MarkKeys, AddRow, FetchFails, Fetched, Stamp, InMap, NoKeys,
        Health, Goto, Answer
  <2>4. FetchFails(r) \/ Fetched(r) \/ Stamp(r)
    <3>1. q = r
      BY <2>3
    <3> QED
      BY <2>1, <2>2, <3>1 DEF Step, CheckData, CheckTime, Cached, LockClient,
          NetworkPanics, NetworkKeys, MarkKeys, AddRow, InMap, NoKeys, Health, Mark
  <2>5. CASE FetchFails(r)
    BY <2>1, <2>5 DEF FetchFails, Answer, Plain
  <2>6. CASE Fetched(r)
    <3>1. Listing(r) /\ answer'[r] = List(rows)
      BY <2>1, <2>6 DEF Fetched, Answer, Goto
    <3> QED BY <1>1, <3>1 DEF List, ExposedInv, ListInv, RowsSound
  <2>7. CASE Stamp(r)
    <3>1. pc[r] = "stamp" /\ answer'[r] = List(data[W(r)])
      BY <2>1, <2>7 DEF Stamp, Answer
    <3> QED BY <1>1, <3>1 DEF List, ExposedInv, OwnList
  <2> QED BY <2>4, <2>5, <2>6, <2>7
<1>2. ExposedInv /\ [Next]_vars => [\A r \in Request : Goal(r)]_vars
  BY <1>1
<1> QED
  BY <1>2, InitInv, NextInv, PTL DEF Spec, FreshListIsOwn
==============================================================================
