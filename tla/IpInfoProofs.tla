----------------------------- MODULE IpInfoProofs -----------------------------
(***************************************************************************)
(* Proofs about IpInfo, for every set of addresses and places, queries of  *)
(* every length, and any number of moves and restarts.                     *)
(***************************************************************************)
EXTENDS IpInfo, TLAPS

\* The first answer about an address is what the cache holds: the two are
\* written together, and the cache is not written again.
CacheIsTold == cache = told

\* An address that the query has passed by is not in the cache: it was passed
\* by because it was not there, and only the query that runs fills the cache.
PassedUnknown ==
    \A i \in DOMAIN query : i < next => cache[query[i]] = Null

\* While a lookup waits for the service its address is still not in the cache.
WaitingUnknown == waiting => cache[Current] = Null

IpInv == /\ TypeOK /\ CacheIsTold /\ PassedUnknown /\ WaitingUnknown
         /\ AnswersAgree /\ EmptyIsUnknown

------------------------------------------------------------------------------

LEMMA InitInv == Init => IpInv
  <1> SUFFICES ASSUME Init PROVE IpInv
    OBVIOUS
  <1>1. next \in 0 .. Len(query) + 1 /\ query \in Seq(Address)
    BY DEF Init
  <1>2. waiting \in BOOLEAN /\ ~waiting
    BY DEF Init
  <1>3. TypeOK
    BY <1>1, <1>2 DEF Init, TypeOK
  <1> QED
    BY <1>3 DEF Init, IpInv, CacheIsTold, PassedUnknown, WaitingUnknown,
        AnswersAgree, EmptyIsUnknown

\* The address at hand is one of Address.
LEMMA CurrentType ==
    ASSUME TypeOK, next \in DOMAIN query
    PROVE  Current \in Address /\ next # 0 /\ next \in 1 .. Len(query)
  BY DEF TypeOK, Current

\* A query returns a place for the address at hand, which is, or now becomes,
\* the place in the cache.
LEMMA ReturnInv ==
    ASSUME IpInv, next \in DOMAIN query, NEW place \in Place, Return(place),
           \/ cache[Current] = place /\ cache' = cache
           \/ cache[Current] = Null /\ cache' = [cache EXCEPT ![Current] = place]
    PROVE  IpInv'
  <1> USE DEF IpInv
  <1>1. /\ Current \in Address /\ place # None /\ place # Null
    BY CurrentType, IpInfoAssumption
  <1>2. /\ answer' = [place |-> place, of |-> Current]
        /\ told' = [told EXCEPT ![Current] = IF @ = Null THEN place ELSE @]
        /\ next' = 0 /\ waiting' = FALSE
        /\ UNCHANGED <<at, moves, query, restarts>>
    BY DEF Return, world
  <1>3. cache' = told'
    BY <1>1, <1>2 DEF CacheIsTold, TypeOK
  <1>4. TypeOK'
    <2>1. cache' \in [Address -> Place \cup {Null}]
      BY <1>1 DEF TypeOK
    <2>2. next' \in 0 .. Len(query') + 1
      BY <1>2 DEF TypeOK
    <2>3. waiting' \in BOOLEAN /\ ~waiting'
      BY <1>2
    <2> QED
      BY <1>1, <1>2, <1>3, <2>1, <2>2, <2>3 DEF TypeOK
  <1>5. AnswersAgree'
    BY <1>1, <1>2 DEF AnswersAgree, CacheIsTold, TypeOK
  <1>6. PassedUnknown' /\ WaitingUnknown' /\ EmptyIsUnknown'
    <2>1. \A i \in DOMAIN query : ~(i < 0)
      BY DEF TypeOK
    <2> QED
      BY <1>1, <1>2, <2>1 DEF PassedUnknown, WaitingUnknown, EmptyIsUnknown
  <1> QED
    BY <1>3, <1>4, <1>5, <1>6 DEF CacheIsTold

LEMMA NextInv == IpInv /\ [Next]_vars => IpInv'
  <1> SUFFICES ASSUME IpInv, [Next]_vars PROVE IpInv'
    OBVIOUS
  <1> USE DEF IpInv
  <1>1. ASSUME NEW q \in Queries, QueryBegins(q) PROVE IpInv'
    <2>1. /\ q \in Seq(Address) /\ query' = q /\ next' = 1
          /\ UNCHANGED <<at, moves, cache, waiting, answer, told, restarts>>
      BY <1>1, IpInfoAssumption DEF QueryBegins, world
    <2>2. ~waiting
      BY <1>1, CurrentType DEF QueryBegins, TypeOK
    <2>3. TypeOK'
      BY <2>1, <2>2 DEF TypeOK
    <2>4. \A i \in DOMAIN query' : ~(i < 1)
      BY <2>1
    <2> QED
      BY <2>1, <2>2, <2>3, <2>4
      DEF CacheIsTold, PassedUnknown, WaitingUnknown, AnswersAgree, EmptyIsUnknown
  <1>2. CASE FromCache
    <2>1. next \in DOMAIN query /\ cache[Current] # Null /\ cache' = cache
          /\ Return(cache[Current])
      BY <1>2 DEF FromCache
    <2>2. cache[Current] \in Place
      BY <2>1, CurrentType DEF TypeOK
    <2> QED
      BY <2>1, <2>2, ReturnInv
  <1>3. CASE Ask
    BY <1>3 DEF Ask, world, TypeOK, CacheIsTold, PassedUnknown, WaitingUnknown,
        AnswersAgree, EmptyIsUnknown, Current
  <1>4. CASE LookupOk
    <2>1. next \in DOMAIN query /\ cache[Current] = Null
      BY <1>4 DEF LookupOk, TypeOK, WaitingUnknown
    <2>2. at[Current] \in Place
      BY <2>1, CurrentType DEF TypeOK
    <2> QED
      BY <1>4, <2>1, <2>2, ReturnInv DEF LookupOk
  <1>5. CASE LookupErr
    <2>1. /\ next \in DOMAIN query /\ next' = next + 1 /\ waiting' = FALSE
          /\ cache[query[next]] = Null
          /\ UNCHANGED <<at, moves, cache, query, answer, told, restarts>>
      BY <1>5 DEF LookupErr, world, TypeOK, WaitingUnknown, Current
    <2>2. TypeOK'
      <3>1. next' \in 0 .. Len(query') + 1
        BY <2>1 DEF TypeOK
      <3>2. waiting' \in BOOLEAN /\ ~waiting'
        BY <2>1
      <3> QED
        BY <2>1, <3>1, <3>2 DEF TypeOK
    <2>3. \A i \in DOMAIN query : i < next + 1 => i < next \/ i = next
      BY DEF TypeOK
    <2>4. next' # 0
      BY <2>1 DEF TypeOK
    <2> QED
      BY <2>1, <2>2, <2>3, <2>4
      DEF CacheIsTold, PassedUnknown, WaitingUnknown, AnswersAgree, EmptyIsUnknown
  <1>6. CASE QueryFails
    <2>1. /\ next = Len(query) + 1 /\ next' = 0
          /\ answer' = [place |-> None, of |-> Null]
          /\ UNCHANGED <<at, moves, cache, query, waiting, told, restarts>>
      BY <1>6 DEF QueryFails, world
    <2>2. ~waiting
      BY <2>1 DEF TypeOK
    <2>3. \A i \in DOMAIN query : i < next /\ ~(i < 0)
      BY <2>1 DEF TypeOK
    <2>4. TypeOK'
      BY <2>1, <2>2 DEF TypeOK
    <2> QED
      BY <2>1, <2>2, <2>3, <2>4
      DEF CacheIsTold, PassedUnknown, WaitingUnknown, AnswersAgree, EmptyIsUnknown
  <1>7. ASSUME NEW a \in Address, Moves(a) PROVE IpInv'
    <2>1. /\ at' \in [Address -> Place] /\ moves' \in Nat
          /\ UNCHANGED <<cache, query, next, waiting, answer, told, restarts>>
      BY <1>7 DEF Moves, TypeOK
    <2> QED
      BY <2>1 DEF TypeOK, CacheIsTold, PassedUnknown, WaitingUnknown,
          AnswersAgree, EmptyIsUnknown, Current
  <1>8. CASE Restart
    <2>1. /\ restarts' \in Nat /\ UNCHANGED <<at, moves>>
          /\ cache' = [a \in Address |-> Null] /\ told' = [a \in Address |-> Null]
          /\ query' = <<>> /\ next' = 0 /\ answer' = [place |-> None, of |-> Null]
      BY <1>8 DEF Restart, world, TypeOK
    <2>2. waiting' \in BOOLEAN /\ ~waiting'
      BY <1>8 DEF Restart
    <2>3. TypeOK'
      <3>1. next' \in 0 .. Len(query') + 1 /\ query' \in Seq(Address)
        BY <2>1
      <3> QED
        BY <2>1, <2>2, <3>1 DEF TypeOK
    <2> QED
      BY <2>1, <2>2, <2>3 DEF CacheIsTold, PassedUnknown, WaitingUnknown,
          AnswersAgree, EmptyIsUnknown
  <1>9. CASE UNCHANGED vars
    BY <1>9 DEF vars, world, TypeOK, CacheIsTold, PassedUnknown, WaitingUnknown,
        AnswersAgree, EmptyIsUnknown, Current
  <1> QED
    BY <1>1, <1>2, <1>3, <1>4, <1>5, <1>6, <1>7, <1>8, <1>9 DEF Next

\* The cache, the query and its answer have their types: no failure is ever
\* kept in the cache.
THEOREM TypeCorrect == Spec => []TypeOK
  <1>1. IpInv => TypeOK
    BY DEF IpInv
  <1> QED
    BY <1>1, InitInv, NextInv, PTL DEF Spec

\* Between two restarts all queries give one place for an address, whatever
\* the service says later.
THEOREM OnePlace == Spec => []AnswersAgree
  <1>1. IpInv => AnswersAgree
    BY DEF IpInv
  <1> QED
    BY <1>1, InitInv, NextInv, PTL DEF Spec

\* A query fails only if no address it names is in the cache.
THEOREM FailsOnlyIfUnknown == Spec => []EmptyIsUnknown
  <1>1. IpInv => EmptyIsUnknown
    BY DEF IpInv
  <1> QED
    BY <1>1, InitInv, NextInv, PTL DEF Spec
==============================================================================
