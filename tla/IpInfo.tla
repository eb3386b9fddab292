-------------------------------- MODULE IpInfo --------------------------------
(***************************************************************************)
(* marci/src/main.rs, lookup_ipinfo and its callers: the places of         *)
(* addresses, from a cache in memory or from ipinfo.io.  Only the main     *)
(* loop looks addresses up, one report at a time; a lookup waits for the   *)
(* service.  Marci sees of this no more than the result (Lookup).          *)
(*                                                                         *)
(* The service is the environment: it may fail, and it may change its mind *)
(* about an address.                                                       *)
(***************************************************************************)
EXTENDS Naturals, Sequences

CONSTANTS
    Address, Place,
    Queries,     \* the addresses of a report, in its order; one for query_by_ip
    Null, None,  \* nothing yet; the query gave nothing
    MaxMoves,    \* bound on the changes of places
    MaxRestarts  \* bound on the restarts

ASSUME IpInfoAssumption ==
    /\ Queries \subseteq Seq(Address)
    /\ Null \notin Place /\ None \notin Place \cup {Null}
    /\ MaxMoves \in Nat /\ MaxRestarts \in Nat

VARIABLES
    at,       \* where the service has each address
    cache,    \* IPINFO_CACHE; Null = no entry
    query,    \* the addresses of the query that runs, or ran last
    next,     \* the one that is looked up; 0 = no query runs
    waiting,  \* the service was asked about it
    answer,   \* of the last query
    told,     \* history: the first answer about each address since the start
    moves, restarts

world == <<at, moves>>
vars == <<world, cache, query, next, waiting, answer, told, restarts>>

Init ==
    /\ at \in [Address -> Place]
    /\ cache = [a \in Address |-> Null]
    /\ query = <<>> /\ next = 0 /\ waiting = FALSE /\ answer = [place |-> None, of |-> Null]
    /\ told = [a \in Address |-> Null]
    /\ moves = 0 /\ restarts = 0

Current == query[next]
AtAddress(a) == next \in DOMAIN query /\ Current = a

------------------------------------------------------------------------------

\* query_by_reachable and query_by_ip
QueryBegins(q) ==
    /\ next = 0
    /\ query' = q /\ next' = 1
    /\ UNCHANGED <<world, cache, waiting, answer, told, restarts>>

\* The query returns what was found about the current address.
Return(place) ==
    /\ answer' = [place |-> place, of |-> Current]
    /\ told' = [told EXCEPT ![Current] = IF @ = Null THEN place ELSE @]
    /\ next' = 0 /\ waiting' = FALSE
    /\ UNCHANGED <<world, query, restarts>>

FromCache ==
    /\ next \in DOMAIN query /\ ~waiting
    /\ cache[Current] # Null
    /\ Return(cache[Current])
    /\ UNCHANGED cache

Ask ==
    /\ next \in DOMAIN query /\ ~waiting
    /\ cache[Current] = Null
    /\ waiting' = TRUE
    /\ UNCHANGED <<world, cache, query, next, answer, told, restarts>>

\* Mutant: the details are not kept.
LookupOkForgotten ==
    /\ waiting
    /\ Return(at[Current])
    /\ UNCHANGED cache

LookupOk ==
    /\ waiting
    /\ Return(at[Current])
    /\ cache' = [cache EXCEPT ![Current] = at[Current]]

\* Mutant: the query gives up at the first error.
LookupErrStops ==
    /\ waiting
    /\ next' = Len(query) + 1 /\ waiting' = FALSE
    /\ UNCHANGED <<world, cache, query, answer, told, restarts>>

\* Mutant: the failure is kept.
LookupErrKept ==
    /\ waiting
    /\ next' = next + 1 /\ waiting' = FALSE
    /\ cache' = [cache EXCEPT ![Current] = None]
    /\ UNCHANGED <<world, query, answer, told, restarts>>

\* The next address of the query is tried.
LookupErr ==
    /\ waiting
    /\ next' = next + 1 /\ waiting' = FALSE
    /\ UNCHANGED <<world, cache, query, answer, told, restarts>>

QueryFails ==
    /\ next = Len(query) + 1
    /\ answer' = [place |-> None, of |-> Null] /\ next' = 0
    /\ UNCHANGED <<world, cache, query, waiting, told, restarts>>

------------------------------------------------------------------------------
(* The service, and restarts of the process *)

Moves(a) ==
    /\ moves < MaxMoves /\ moves' = moves + 1
    /\ \E place \in Place \ {at[a]} : at' = [at EXCEPT ![a] = place]
    /\ UNCHANGED <<cache, query, next, waiting, answer, told, restarts>>

Restart ==
    /\ restarts < MaxRestarts /\ restarts' = restarts + 1
    /\ cache' = [a \in Address |-> Null] /\ told' = [a \in Address |-> Null]
    /\ query' = <<>> /\ next' = 0 /\ waiting' = FALSE
    /\ answer' = [place |-> None, of |-> Null]
    /\ UNCHANGED world

Next ==
    \/ \E q \in Queries : QueryBegins(q)
    \/ FromCache \/ Ask \/ LookupOk \/ LookupErr \/ QueryFails
    \/ \E a \in Address : Moves(a)
    \/ Restart

Spec == Init /\ [][Next]_vars

\* The loop goes on, and the service does not fail on an address for ever.
Fairness ==
    /\ WF_vars(FromCache) /\ WF_vars(Ask) /\ WF_vars(QueryFails)
    /\ WF_vars(LookupOk \/ LookupErr)
    /\ \A a \in Address : SF_vars(AtAddress(a) /\ LookupOk)

FairSpec == Spec /\ Fairness

------------------------------------------------------------------------------
(* Properties *)

\* Every variable has its type: nothing but places gets into the cache.
TypeOK ==
    /\ at \in [Address -> Place]
    /\ cache \in [Address -> Place \cup {Null}]
    /\ query \in Seq(Address) /\ next \in 0 .. Len(query) + 1
    /\ waiting \in BOOLEAN /\ (waiting => next \in DOMAIN query)
    /\ answer \in [place : Place \cup {None}, of : Address \cup {Null}]
    /\ told \in [Address -> Place \cup {Null}]
    /\ moves \in Nat /\ restarts \in Nat

\* Until the process is restarted, every query that answers from an address
\* gives the place that the first one gave, also when the service has moved
\* the address since: peers at one address are shown at one place.
AnswersAgree == answer.of # Null => answer.place = told[answer.of]

\* A query comes back empty only when nothing is known of any of its
\* addresses: an error on one does not hide what another one would give.
EmptyIsUnknown ==
    next = 0 /\ answer.place = None =>
        \A i \in DOMAIN query : cache[query[i]] = Null

\* A failure is not remembered: an address that comes up again and again is
\* located in the end.
LocatedInTheEnd ==
    \A a \in Address : []<>AtAddress(a) => <>(cache[a] \in Place)
==============================================================================
