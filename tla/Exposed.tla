------------------------------- MODULE Exposed -------------------------------
(***************************************************************************)
(* exposed/src/main.rs: the query service.  Every worker keeps the list of *)
(* peers it fetched last; all requests share one Redis connection behind a *)
(* mutex.  A request runs from await to await: a lock that may have to be  *)
(* waited for and every Redis command is a step of its own, with the steps *)
(* of other requests and of the control centre in between.                 *)
(*                                                                         *)
(* The control centre is represented by the abstract map of peers.  A peer *)
(* is shown with one of its marks; the texts of a row (version, place,     *)
(* last_seen), which are read by commands whose failure is ignored, are    *)
(* left out.                                                               *)
(***************************************************************************)
EXTENDS Naturals, NodeTypes

CONSTANTS
    Peer,
    Request,     \* requests in flight at once
    Worker,      \* worker threads of the HTTP server
    WorkerOf,    \* the worker that serves each request
    Query,       \* what may be asked
    CacheTtl,    \* time units for which a list is served again (30 s)
    MaxChanges,  \* bound on the changes of the map in a behaviour
    Nobody       \* no holder of a lock

\* GET /peer?network=, GET /peer_status?peer_id= and GET /health
PeerQuery   == [kind : {"peer"}, network : STRING]
StatusQuery == [kind : {"peer_status"}, peer : Peer]
HealthQuery == [kind : {"health"}]

ASSUME ExposedAssumption ==
    /\ WorkerOf \in [Request -> Worker]
    /\ Query \subseteq PeerQuery \cup StatusQuery \cup HealthQuery
    /\ CacheTtl \in Nat /\ MaxChanges \in Nat
    /\ Nobody \notin Request \cup Query

VARIABLES
    map, due, index, updated, cut,   \* Redis, as of PeerMap
    client,    \* holder of the mutex of the Redis connection
    data,      \* the list each worker has cached
    dataLock,  \* holder of the mutex of each cached list
    age,       \* time since last_cache_update; more than CacheTtl at the start
    pc, query, answer,   \* the requests
    ids, found, rows,    \* local to get_peers: peers, KEYS replies, result
    \* history: the marks each peer had at some time, and at all times, since
    \* the connection was taken; a failed read was ignored since then; time
    \* since each list was replaced; changes of the map so far
    seen, kept, missed, born, changes

redis == <<map, due, index, updated, cut, changes>>
PM == INSTANCE PeerMap

cache == <<data, dataLock, age, born>>
local == <<ids, found, rows>>
watch == <<seen, kept>>
vars == <<redis, client, cache, pc, query, answer, local, watch, missed>>

Mark == {"online", "online2", "unknown"}
Row == [peer : Peer, as : Mark]
NoMark == [p \in Peer |-> {}]
Stale == CacheTtl + 1

\* An answer with status 200 and a list, or another kind of answer.
List(rs) == [is |-> "list", rows |-> rs]
Plain(a) == [is |-> a, rows |-> {}]
Answers == {"none", "list", "error", "panic", "in_map", "not_in_map", "ok"}

Init ==
    /\ PM!Init /\ changes = 0
    /\ client = Nobody
    /\ data = [w \in Worker |-> {}]
    /\ dataLock = [w \in Worker |-> Nobody]
    /\ age = [w \in Worker |-> Stale] /\ born = [w \in Worker |-> 0]
    /\ pc = [r \in Request |-> "idle"]
    /\ query = [r \in Request |-> Nobody]
    /\ answer = [r \in Request |-> Plain("none")]
    /\ ids = {} /\ found = [m \in Mark |-> {}] /\ rows = {}
    /\ seen = NoMark /\ kept = NoMark /\ missed = FALSE

------------------------------------------------------------------------------
(* The control centre and time *)

MapChanges ==
    /\ changes < MaxChanges /\ changes' = changes + 1
    /\ PM!Next
    /\ seen' = [p \in Peer |-> IF client = Nobody THEN {} ELSE seen[p] \cup map'[p]]
    /\ kept' = [p \in Peer |-> kept[p] \cap map'[p]]
    /\ UNCHANGED <<client, cache, pc, query, answer, local, missed>>

\* A time unit passes.  It is much longer than the steps that wait for nothing
\* but a mutex that is never held across a Redis command.
TimePasses ==
    /\ \A r \in Request : pc[r] \notin {"cached", "stamp"}
    /\ age' = [w \in Worker |-> IF age[w] < Stale THEN age[w] + 1 ELSE Stale]
    /\ born' = [w \in Worker |-> IF born[w] < Stale THEN born[w] + 1 ELSE Stale]
    /\ UNCHANGED <<redis, client, data, dataLock, pc, query, answer, local, watch, missed>>

------------------------------------------------------------------------------
(* Requests *)

W(r) == WorkerOf[r]
Network(r) == FromString(query[r].network)

Goto(r, step) == pc' = [pc EXCEPT ![r] = step] /\ UNCHANGED <<query, answer>>

Answer(r, a) ==
    /\ pc' = [pc EXCEPT ![r] = "idle"]
    /\ answer' = [answer EXCEPT ![r] = a]
    /\ UNCHANGED query

\* The request gives the connection back; what get_peers has read is dropped.
Release ==
    /\ client' = Nobody
    /\ ids' = {} /\ found' = [m \in Mark |-> {}] /\ rows' = {}
    /\ seen' = NoMark /\ kept' = NoMark

Arrive(r, q) ==
    /\ pc[r] = "idle"
    /\ pc' = [pc EXCEPT ![r] = IF q.kind = "peer" THEN "check_data" ELSE "lock"]
    /\ query' = [query EXCEPT ![r] = q]
    /\ answer' = [answer EXCEPT ![r] = Plain("none")]
    /\ UNCHANGED <<redis, client, cache, local, watch, missed>>

------------------------------------------------------------------------------
(* peer_handler: the cache.  The guard of last_cache_update is never held  *)
(* across an await, so its mutex needs no state.                           *)

CheckData(r) ==
    /\ pc[r] = "check_data" /\ dataLock[W(r)] = Nobody
    /\ Goto(r, IF data[W(r)] = {} THEN "lock" ELSE "check_time")
    /\ UNCHANGED <<redis, client, cache, local, watch, missed>>

\* Mutant: a list is served for one time unit too long.
CheckTimeLate(r) ==
    /\ pc[r] = "check_time"
    /\ Goto(r, IF age[W(r)] > CacheTtl + 1 THEN "lock" ELSE "cached")
    /\ UNCHANGED <<redis, client, cache, local, watch, missed>>

CheckTime(r) ==
    /\ pc[r] = "check_time"
    /\ Goto(r, IF age[W(r)] > CacheTtl THEN "lock" ELSE "cached")
    /\ UNCHANGED <<redis, client, cache, local, watch, missed>>

Cached(r) ==
    /\ pc[r] = "cached" /\ dataLock[W(r)] = Nobody
    /\ Answer(r, List(data[W(r)]))
    /\ UNCHANGED <<redis, client, cache, local, watch, missed>>

------------------------------------------------------------------------------
(* The Redis connection *)

LockClient(r) ==
    /\ pc[r] = "lock" /\ client = Nobody
    /\ ~(query[r].kind = "peer" /\ Network(r) = "Dev")
    /\ client' = r
    /\ Goto(r, IF query[r].kind = "peer" THEN "network"
               ELSE IF query[r].kind = "health" THEN "health" ELSE "online")
    /\ seen' = map /\ kept' = map /\ missed' = FALSE
    /\ UNCHANGED <<redis, cache, local>>

\* unreachable!() is reached: the handler panics with the connection locked,
\* and unwinding unlocks it again.
NetworkPanics(r) ==
    /\ pc[r] = "lock" /\ client = Nobody
    /\ query[r].kind = "peer" /\ Network(r) = "Dev"
    /\ Answer(r, Plain("panic"))
    /\ UNCHANGED <<redis, client, cache, local, watch, missed>>

------------------------------------------------------------------------------
(* get_peers: four KEYS commands, then one GET for each peer found online. *)

Listing(r) == client = r /\ query[r].kind = "peer"

\* Mutant: the last part of the key is taken for the peer id.
NetworkKeysLast(r) ==
    /\ Listing(r) /\ pc[r] = "network"
    /\ ids' = {n \in NetworkStrings :
                  n = IntoStr(Network(r)) /\ \E p \in Peer : n \in index[p]}
    /\ Goto(r, "online")
    /\ UNCHANGED <<redis, client, cache, found, rows, watch, missed>>

NetworkKeys(r) ==
    /\ Listing(r) /\ pc[r] = "network"
    /\ ids' = {p \in Peer : IntoStr(Network(r)) \in index[p]}
    /\ Goto(r, "online")
    /\ UNCHANGED <<redis, client, cache, found, rows, watch, missed>>

\* Mutant: online2 is forgotten.
NextMarkSkips(mark) == IF mark = "online" THEN "unknown" ELSE "rows"

\* The next mark to be looked for, in get_peers and in peer_in_map.
NextMark(mark) == IF mark = "online" THEN "online2"
                  ELSE IF mark = "online2" THEN "unknown" ELSE "rows"

MarkKeys(r) ==
    /\ Listing(r) /\ pc[r] \in Mark
    /\ found' = [found EXCEPT ![pc[r]] = {p \in Peer : pc[r] \in map[p]}]
    /\ Goto(r, NextMark(pc[r]))
    /\ UNCHANGED <<redis, client, cache, ids, rows, watch, missed>>

\* Mutant: unknown comes first.
ShownUnknown(p) == IF p \in found["unknown"] THEN "unknown"
                   ELSE IF p \in found["online"] THEN "online" ELSE "online2"

\* The mark under which a listed peer is shown, by the KEYS replies.
Shown(p) == IF p \in found["online"] THEN "online"
            ELSE IF p \in found["online2"] THEN "online2" ELSE "unknown"

\* Mutant: peers that are only marked online2 are skipped.
PendingPlain == {p \in ids : \E m \in {"online", "unknown"} : p \in found[m]}

Pending == {p \in ids : \E m \in Mark : p \in found[m]}

\* The version of a peer that is online is read now, when it may be gone.
AddRow(r, p) ==
    /\ Listing(r) /\ pc[r] = "rows" /\ p \in Pending
    /\ Shown(p) = "unknown" \/ Shown(p) \in map[p]
    /\ rows' = rows \cup {[peer |-> p, as |-> Shown(p)]}
    /\ ids' = ids \ {p}
    /\ UNCHANGED <<redis, client, cache, pc, query, answer, found, watch, missed>>

\* Mutant: the connection is not unlocked after a failure.
FetchFailsLocked(r) ==
    /\ Listing(r)
    /\ \/ pc[r] \in Mark \cup {"network"}
       \/ pc[r] = "rows" /\ \E p \in Pending : Shown(p) # "unknown"
    /\ Answer(r, Plain("error"))
    /\ UNCHANGED <<redis, cache, client, local, watch, missed>>

\* A command fails, among them the GET of a version that is gone.
FetchFails(r) ==
    /\ Listing(r)
    /\ \/ pc[r] \in Mark \cup {"network"}
       \/ pc[r] = "rows" /\ \E p \in Pending : Shown(p) # "unknown"
    /\ Answer(r, Plain("error"))
    /\ Release
    /\ UNCHANGED <<redis, cache, missed>>

\* Other requests wait for the cached list.  A mutex of tokio that is given
\* back goes to the one that waits, before it is free for a try_lock.
Awaited(r) ==
    \E q \in Request \ {r} : W(q) = W(r) /\ pc[q] \in {"check_data", "cached"}

\* Mutant: the list is unlocked before the time of the update is set.
FetchedUnlocked(r) ==
    /\ Listing(r) /\ pc[r] = "rows" /\ Pending = {}
    /\ Release
    /\ data' = [data EXCEPT ![W(r)] = rows]
    /\ born' = [born EXCEPT ![W(r)] = 0]
    /\ Goto(r, "stamp")
    /\ UNCHANGED <<redis, dataLock, age, missed>>

\* The end of get_peers and the try_lock that follows, with no await between.
Fetched(r) ==
    /\ Listing(r) /\ pc[r] = "rows" /\ Pending = {}
    /\ Release
    /\ \/ /\ dataLock[W(r)] = Nobody
          /\ data' = [data EXCEPT ![W(r)] = rows]
          /\ dataLock' = [dataLock EXCEPT ![W(r)] = r]
          /\ born' = [born EXCEPT ![W(r)] = 0]
          /\ Goto(r, "stamp")
       \/ /\ dataLock[W(r)] # Nobody \/ Awaited(r)
          /\ Answer(r, List(rows))
          /\ UNCHANGED <<data, dataLock, born>>
    /\ UNCHANGED <<redis, age, missed>>

Stamp(r) ==
    /\ pc[r] = "stamp"
    /\ age' = [age EXCEPT ![W(r)] = 0]
    /\ dataLock' = [dataLock EXCEPT ![W(r)] = Nobody]
    /\ Answer(r, List(data[W(r)]))
    /\ UNCHANGED <<redis, client, data, born, local, watch, missed>>

------------------------------------------------------------------------------
(* peer_in_map and last_update_handler *)

InMap(r) ==
    /\ client = r /\ query[r].kind = "peer_status" /\ pc[r] \in Mark
    /\ pc[r] \in map[query[r].peer]
    /\ Answer(r, Plain("in_map"))
    /\ Release
    /\ UNCHANGED <<redis, cache, missed>>

\* KEYS has no reply, or failed and unwrap_or_default hides it.
NoKeys(r) ==
    /\ client = r /\ query[r].kind = "peer_status" /\ pc[r] \in Mark
    /\ missed' = (missed \/ pc[r] \in map[query[r].peer])
    /\ IF pc[r] = "unknown" THEN Answer(r, Plain("not_in_map")) /\ Release
       ELSE Goto(r, NextMark(pc[r])) /\ UNCHANGED <<client, local, watch>>
    /\ UNCHANGED <<redis, cache>>

\* Without the key service.last_update there is an error, too.
Health(r) ==
    /\ client = r /\ pc[r] = "health"
    /\ \E a \in {"error"} \cup (IF updated THEN {"ok"} ELSE {}) : Answer(r, Plain(a))
    /\ Release
    /\ UNCHANGED <<redis, cache, missed>>

------------------------------------------------------------------------------

Step(r) ==
    \/ CheckData(r) \/ CheckTime(r) \/ Cached(r)
    \/ LockClient(r) \/ NetworkPanics(r)
    \/ NetworkKeys(r) \/ MarkKeys(r) \/ (\E p \in Peer : AddRow(r, p))
    \/ FetchFails(r) \/ Fetched(r) \/ Stamp(r)
    \/ InMap(r) \/ NoKeys(r) \/ Health(r)

Next ==
    \/ MapChanges \/ TimePasses
    \/ \E r \in Request : Step(r) \/ \E q \in Query : Arrive(r, q)

Spec == Init /\ [][Next]_vars

\* The mutexes of tokio are fair: they serve their waiters in turn.
FairSpec == Spec /\ \A r \in Request : SF_vars(Step(r))

------------------------------------------------------------------------------
(* Properties *)

\* Every variable has its type, and the locals of get_peers are empty unless
\* a request holds the connection.
TypeOK ==
    /\ map \in [Peer -> SUBSET Mark] /\ due \in SUBSET (Mark \X Peer)
    /\ index \in [Peer -> SUBSET NetworkStrings]
    /\ updated \in BOOLEAN /\ cut \in SUBSET Peer
    /\ client \in Request \cup {Nobody}
    /\ data \in [Worker -> SUBSET Row]
    /\ dataLock \in [Worker -> Request \cup {Nobody}]
    /\ age \in [Worker -> 0..Stale] /\ born \in [Worker -> 0..Stale]
    /\ pc \in [Request -> Mark \cup {"idle", "check_data", "check_time", "cached",
                                     "lock", "network", "rows", "stamp", "health"}]
    /\ query \in [Request -> Query \cup {Nobody}]
    /\ \A r \in Request : pc[r] # "idle" => query[r] # Nobody
    /\ answer \in [Request -> [is : Answers, rows : SUBSET Row]]
    /\ ids \in SUBSET Peer /\ found \in [Mark -> SUBSET Peer]
    /\ rows \in SUBSET Row
    /\ client = Nobody => ids = {} /\ rows = {}
    /\ seen \in [Peer -> SUBSET Mark] /\ kept \in [Peer -> SUBSET Mark]
    /\ missed \in BOOLEAN /\ changes \in 0..MaxChanges

\* A list that has been fetched shows only peers of the network, each with a
\* mark it had while the list was fetched, and shows it online if it was
\* online throughout, although the marks are read by three commands between
\* which the control centre goes on.
ListSound ==
    \A r \in Request : Listing(r) /\ pc[r] = "rows" =>
        \A x \in rows : /\ IntoStr(Network(r)) \in index[x.peer]
                        /\ x.as \in seen[x.peer]
                        /\ "online" \in kept[x.peer] => x.as = "online"

\* A list that has been fetched leaves out no peer of the network that had one
\* and the same mark while the list was fetched.
ListComplete ==
    \A r \in Request : Listing(r) /\ pc[r] = "rows" /\ Pending = {} =>
        \A p \in ids : kept[p] = {}

\* /peer_status says that a peer is on the map only if it was at some time
\* during the request, and denies it only if no mark of the peer lasted for the
\* whole request or a command failed.
StatusRegular ==
    [][\A r \in Request :
          client = r /\ client' # r /\ query[r].kind = "peer_status" =>
             /\ answer'[r].is = "in_map" => seen[query[r].peer] # {}
             /\ answer'[r].is = "not_in_map" => kept[query[r].peer] = {} \/ missed']_vars

\* A list that is answered from the cache was put there at most CacheTtl ago,
\* whatever other requests do between the checks and the answer.
CachedIsFresh ==
    [][\A r \in Request : Cached(r) => born[W(r)] <= CacheTtl]_vars

\* A request that has fetched a list is answered with peers of the network it
\* asked for, although it puts the list into the cache that all requests of the
\* worker share, whatever they ask for, and answers from there after it has
\* waited for another mutex.  (A list that was already cached may be of another
\* network: the cache does not know for which one it was filled.)
FreshListIsOwn ==
    [][\A r \in Request : pc[r] \in {"rows", "stamp"} /\ pc'[r] = "idle" =>
          \A x \in answer'[r].rows : IntoStr(Network(r)) \in index[x.peer]]_vars

\* Every request is answered: no step waits for a lock that is not given back,
\* failed commands and panics included.
EveryRequestAnswered ==
    \A r \in Request : pc[r] # "idle" ~> pc[r] = "idle"
==============================================================================
