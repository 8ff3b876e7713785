------------------------- MODULE DatabaseEngine_proofs -------------------------
(***************************************************************************)
(* Proofs about the database engine's pools, for any number of calls,      *)
(* pools and connections.                                                  *)
(***************************************************************************)
EXTENDS DatabaseEngine, SequenceTheorems, FiniteSetTheorems, TLAPS

\* What the engine assumes of its constants: whatever is asked is of its type, and
\* a cache has room for a pool (database.rs: MAX_CACHED_POOLS is 8).
EngineAssumption ==
  /\ Asks \subseteq Asked
  /\ MaxCachedPools \in Nat \ {0} /\ MaxConnections \in Nat
  /\ Free \notin Calls

PoolType == [url : {ConnUrl(ask) : ask \in Asks}, state : {"open", "closing", "closed"},
             out : SUBSET Calls, left : BOOLEAN]
Todos == Seq({"describe", "rows", "nothing"})
Wants == Asked \cup {NoAsk}
Flags == BOOLEAN
Outcomes == {"none", "some", "empty", "error"}
CallType ==
  [ask : Wants, at : Places, todo : Todos, orDescribe : Flags, pool : Nat, inside : Flags,
   result : Outcomes]

Typed ==
  /\ pools \in Seq(PoolType)
  /\ cache \in [Dialects -> Seq(Nat)]
  /\ mutex \in [Dialects -> Calls \cup {Free}]
  /\ call \in [Calls -> CallType]

\* A call that has begun asks for something, of a dialect there is, and one that
\* looks at the cache of a dialect or changes it holds its mutex.
Working == {"lock", "look", "evict", "close", "acquire", "begin", "run", "rollback"}
CallInv ==
  \A c \in Calls :
    /\ call[c].at \in Working =>
         call[c].ask \in Asks /\ Dialect(c) \in Dialects /\ call[c].todo # <<>>
    /\ call[c].at \in {"look", "evict", "close"} => mutex[Dialect(c)] = c

\* The pool a call is given is that of its URL.
OwnPool ==
  \A c \in Calls : call[c].at \in {"evict", "close", "acquire", "begin", "run", "rollback"} =>
    call[c].pool \in DOMAIN pools /\ pools[call[c].pool].url = Url(c)

\* A pool that is being put in a cache is open, in no cache, of a URL that the
\* cache does not have, and nobody else's.
NewPools ==
  \A c \in Calls : call[c].at \in {"evict", "close"} =>
    /\ pools[call[c].pool].state = "open"
    /\ \A d \in Dialects : \A i \in DOMAIN cache[d] : cache[d][i] # call[c].pool
    /\ \A i \in DOMAIN cache[Dialect(c)] : pools[cache[Dialect(c)][i]].url # Url(c)
    /\ \A e \in Calls \ {c} : call[e].at \in {"evict", "close"} => call[e].pool # call[c].pool

\* A cached pool exists, and is in one cache.
CacheInv ==
  /\ \A d \in Dialects : \A i \in DOMAIN cache[d] : cache[d][i] \in DOMAIN pools
  /\ \A d, e \in Dialects : \A i \in DOMAIN cache[d], j \in DOMAIN cache[e] :
       d # e => cache[d][i] # cache[e][j]

\* No more connections are out than a pool has.
OutInv ==
  \A p \in DOMAIN pools : IsFiniteSet(pools[p].out) /\ Cardinality(pools[p].out) <= MaxConnections

\* A call has been given no pool, or one there is.
GivenPools == \A c \in Calls : call[c].pool \in {0} \cup DOMAIN pools

\* The inductive invariant.  Whom a statement runs as rests on a cache having one
\* pool for a URL, and that on the mutex being held from the look-up to the insertion.
Inv ==
  /\ Typed /\ CallInv /\ OwnPool /\ NewPools /\ CacheInv /\ OutInv /\ GivenPools
  /\ CacheIsSound /\ NoTransactionLeft

-----------------------------------------------------------------------------
\* A sequence of S whose elements are all in T is one of T.
LEMMA ElementsDecide ==
  ASSUME NEW S, NEW T, NEW s \in Seq(S), \A i \in DOMAIN s : s[i] \in T
  PROVE  s \in Seq(T)
<1>1. Len(s) \in Nat /\ DOMAIN s = 1..Len(s) /\ s \in [1..Len(s) -> T]
  BY LenProperties
<1>2. QED
  BY <1>1, SeqDef

\* The place that what is at place j had, before place i of n was moved to the end.
Moved(n, i, j) == IF j < i THEN j ELSE IF j < n THEN j + 1 ELSE i

LEMMA PlacesMove ==
  ASSUME NEW n \in Nat, NEW i \in 1..n
  PROVE  /\ \A j \in 1..n : Moved(n, i, j) \in 1..n
         /\ \A j, k \in 1..n : Moved(n, i, j) = Moved(n, i, k) => j = k
  BY DEF Moved

\* An element of a sequence is moved to the end of it.
LEMMA MovedToTheEnd ==
  ASSUME NEW S, NEW s \in Seq(S), NEW i \in 1..Len(s)
  PROVE  /\ Append(RemoveAt(s, i), s[i]) \in Seq(S)
         /\ Len(Append(RemoveAt(s, i), s[i])) = Len(s)
         /\ \A j \in 1..Len(s) : Append(RemoveAt(s, i), s[i])[j] = s[Moved(Len(s), i, j)]
<1> DEFINE head == SubSeq(s, 1, i - 1)
           rest == SubSeq(s, i + 1, Len(s))
           less == RemoveAt(s, i)
<1>1. Len(s) \in Nat /\ i \in Nat /\ i - 1 \in Nat /\ Len(s) - i \in Nat /\ s[i] \in S
  BY LenProperties, ElementOfSeq
<1>2. head \in Seq(S) /\ Len(head) = i - 1 /\ \A j \in 1..(i - 1) : head[j] = s[j]
  BY <1>1, SubSeqProperties
<1>3. /\ rest \in Seq(S) /\ Len(rest) = Len(s) - i
      /\ \A j \in 1..(Len(s) - i) : rest[j] = s[i + j]
  BY <1>1, SubSeqProperties
<1>4. less = head \o rest
  BY DEF RemoveAt
<1> HIDE DEF head, rest, less
<1>5. /\ less \in Seq(S) /\ Len(less) = Len(s) - 1
      /\ \A j \in 1..(Len(s) - 1) : less[j] = IF j < i THEN s[j] ELSE s[j + 1]
  <2>1. /\ less \in Seq(S) /\ Len(less) = Len(head) + Len(rest)
        /\ \A j \in 1..(Len(head) + Len(rest)) :
             less[j] = IF j <= Len(head) THEN head[j] ELSE rest[j - Len(head)]
    BY <1>2, <1>3, <1>4, ConcatProperties
  <2>2. ASSUME NEW j \in 1..(Len(s) - 1), j < i PROVE less[j] = s[j]
    <3>1. j \in 1..(i - 1) /\ j <= Len(head) /\ j \in 1..(Len(head) + Len(rest))
      BY <1>1, <1>2, <1>3, <2>2
    <3> QED BY <1>2, <2>1, <3>1
  <2>3. ASSUME NEW j \in 1..(Len(s) - 1), ~(j < i) PROVE less[j] = s[j + 1]
    <3>1. j - (i - 1) \in 1..(Len(s) - i) /\ i + (j - (i - 1)) = j + 1
      BY <1>1, <2>3
    <3>2. ~(j <= Len(head)) /\ j \in 1..(Len(head) + Len(rest))
      BY <1>1, <1>2, <1>3, <2>3
    <3>3. less[j] = rest[j - (i - 1)]
      BY <1>2, <2>1, <3>2
    <3>4. QED
      BY <1>3, <3>1, <3>3
  <2>4. QED
    BY <1>1, <1>2, <1>3, <2>1, <2>2, <2>3
<1>6. /\ Append(less, s[i]) \in Seq(S) /\ Len(Append(less, s[i])) = Len(s)
      /\ Append(less, s[i])[Len(s)] = s[i]
      /\ \A j \in 1..(Len(s) - 1) : Append(less, s[i])[j] = less[j]
  BY <1>1, <1>5, AppendProperties
<1>7. ASSUME NEW j \in 1..Len(s) PROVE Append(less, s[i])[j] = s[Moved(Len(s), i, j)]
  <2>1. CASE j = Len(s)
    BY <1>1, <1>6, <2>1 DEF Moved
  <2>2. CASE j < Len(s)
    BY <1>1, <1>5, <1>6, <2>2 DEF Moved
  <2>3. j = Len(s) \/ j < Len(s)
    BY <1>1
  <2>4. QED
    BY <2>1, <2>2, <2>3
<1>8. QED
  BY <1>6, <1>7 DEF less

\* One pool changes, and all stay where they are.
LEMMA PoolChanges ==
  ASSUME pools \in Seq(PoolType), NEW p \in DOMAIN pools, NEW r \in PoolType,
         pools' = [pools EXCEPT ![p] = r]
  PROVE  /\ pools' \in Seq(PoolType) /\ DOMAIN pools' = DOMAIN pools
         /\ pools'[p] = r /\ \A q \in DOMAIN pools : q # p => pools'[q] = pools[q]
<1>1. DOMAIN pools = 1..Len(pools)
  BY LenProperties
<1>2. QED
  BY <1>1, ExceptSeq, LenProperties

\* Pools are records, and DOMAIN pools are their numbers.
LEMMA PoolNumbers ==
  ASSUME pools \in Seq(PoolType)
  PROVE  /\ DOMAIN pools = 1..Len(pools) /\ Len(pools) \in Nat /\ DOMAIN pools \subseteq Nat
         /\ \A p \in DOMAIN pools : pools[p] \in PoolType
  BY LenProperties, ElementOfSeq

LEMMA CacheNumbers ==
  ASSUME Typed, NEW d \in Dialects
  PROVE  /\ cache[d] \in Seq(Nat) /\ DOMAIN cache[d] = 1..Len(cache[d]) /\ Len(cache[d]) \in Nat
         /\ \A i \in DOMAIN cache[d] : cache[d][i] \in Nat
  BY LenProperties, ElementOfSeq DEF Typed

-----------------------------------------------------------------------------


LEMMA WhatStatementsAre ==
  ASSUME NEW ask \in Asked
  PROVE  /\ Statements(ask).todo \in Todos
         /\ Statements(ask).todo # <<>>
         /\ Statements(ask).orDescribe \in Flags
<1>1. /\ <<"describe">> \in Todos /\ <<"rows">> \in Todos /\ <<"nothing">> \in Todos
      /\ <<"rows", "rows">> \in Todos /\ <<"describe", "rows", "rows">> \in Todos
      /\ <<"describe">> # <<>> /\ <<"rows">> # <<>> /\ <<"nothing">> # <<>>
      /\ <<"rows", "rows">> # <<>> /\ <<"describe", "rows", "rows">> # <<>>
  BY DEF Todos
<1>2. ask.method \in {"schema", "preview", "profile", "query", "query_capped", "scan", "list_tables"}
  BY DEF Asked
<1>3. QED
  BY <1>1, <1>2 DEF Flags, Statements, Schema, Preview, Profile, Query, QueryCapped, Scan, ListTables

\* What is left after a statement is a sequence of statements.
LEMMA WhatIsLeft ==
  ASSUME Typed, NEW c \in Calls, call[c].todo # <<>>, NEW result
  PROVE  Rest(c, result) \in Todos
<1>1. call[c].todo \in Todos
  BY DEF Typed, CallType
<1>2. Tail(call[c].todo) \in Todos /\ <<"describe">> \in Todos
  BY <1>1, HeadTailProperties DEF Todos
<1>3. QED
  BY <1>2 DEF Rest

\* The places a call moves to, and what it may have.
LEMMA Constants ==
  /\ {"idle", "lock", "look", "evict", "close", "acquire", "begin", "run", "rollback",
      "done", "refused", "failed"} \subseteq Places
  /\ <<>> \in Todos /\ TRUE \in Flags /\ FALSE \in Flags
  /\ {"none", "some", "empty", "error"} \subseteq Outcomes
  /\ 0 \in Nat /\ NoAsk \in Wants
  BY EmptySeq DEF Places, Todos, Flags, Outcomes, Wants

\* A call's record, after some of its fields have changed.
LEMMA CallChanges ==
  ASSUME Typed, NEW c \in Calls, NEW at \in Places
  PROVE  /\ [call EXCEPT ![c].at = at] \in [Calls -> CallType]
         /\ \A todo \in Todos : [call EXCEPT ![c].at = at, ![c].todo = todo] \in [Calls -> CallType]
         /\ \A inside \in Flags :
              [call EXCEPT ![c].at = at, ![c].inside = inside] \in [Calls -> CallType]
         /\ \A pool \in Nat : [call EXCEPT ![c].pool = pool, ![c].at = at] \in [Calls -> CallType]
         /\ \A result \in Outcomes :
              [call EXCEPT ![c].result = result, ![c].at = at] \in [Calls -> CallType]
         /\ \A ask \in Wants, todo \in Todos, orDescribe \in Flags :
              [call EXCEPT ![c].ask = ask, ![c].at = at, ![c].todo = todo,
                           ![c].orDescribe = orDescribe] \in [Calls -> CallType]
         /\ \A result \in Outcomes, inside \in Flags, todo \in Todos, orDescribe \in Flags :
              [call EXCEPT ![c].result = result, ![c].inside = inside, ![c].todo = todo,
                           ![c].orDescribe = orDescribe, ![c].at = at] \in [Calls -> CallType]
<1> USE DEF Typed, CallType
<1>1. ASSUME NEW todo \in Todos
      PROVE  [call EXCEPT ![c].at = at, ![c].todo = todo] \in [Calls -> CallType]
  OBVIOUS
<1>2. ASSUME NEW inside \in Flags
      PROVE  [call EXCEPT ![c].at = at, ![c].inside = inside] \in [Calls -> CallType]
  OBVIOUS
<1>3. ASSUME NEW pool \in Nat
      PROVE  [call EXCEPT ![c].pool = pool, ![c].at = at] \in [Calls -> CallType]
  OBVIOUS
<1>4. ASSUME NEW result \in Outcomes
      PROVE  [call EXCEPT ![c].result = result, ![c].at = at] \in [Calls -> CallType]
  OBVIOUS
<1>a. ASSUME NEW r \in CallType, NEW ask \in Wants, NEW todo \in Todos, NEW flag \in Flags,
             NEW result \in Outcomes
      PROVE  /\ [r EXCEPT !.ask = ask] \in CallType /\ [r EXCEPT !.at = at] \in CallType
             /\ [r EXCEPT !.todo = todo] \in CallType /\ [r EXCEPT !.orDescribe = flag] \in CallType
             /\ [r EXCEPT !.inside = flag] \in CallType /\ [r EXCEPT !.result = result] \in CallType
  OBVIOUS
<1> HIDE DEF CallType
<1>b. ASSUME NEW r \in CallType PROVE [call EXCEPT ![c] = r] \in [Calls -> CallType]
  OBVIOUS
<1>5. ASSUME NEW ask \in Wants, NEW todo \in Todos, NEW orDescribe \in Flags
      PROVE  [call EXCEPT ![c].ask = ask, ![c].at = at, ![c].todo = todo,
                          ![c].orDescribe = orDescribe] \in [Calls -> CallType]
  <2> DEFINE r1 == [call[c] EXCEPT !.ask = ask]
             r2 == [r1 EXCEPT !.at = at]
             r3 == [r2 EXCEPT !.todo = todo]
             r4 == [r3 EXCEPT !.orDescribe = orDescribe]
  <2>1. r4 \in CallType
    <3> HIDE DEF r4, r3, r2, r1
    <3>1. r1 \in CallType
      BY <1>a, Constants DEF r1
    <3>2. r2 \in CallType
      BY <1>a, <3>1, Constants DEF r2
    <3>3. r3 \in CallType
      BY <1>a, <3>2, Constants DEF r3
    <3>4. QED
      BY <1>a, <3>3, Constants DEF r4
  <2>2. [call EXCEPT ![c].ask = ask, ![c].at = at, ![c].todo = todo, ![c].orDescribe = orDescribe]
          = [call EXCEPT ![c] = r4]
    OBVIOUS
  <2>3. QED
    <3> HIDE DEF r4
    <3> QED BY <1>b, <2>1, <2>2
<1>6. ASSUME NEW result \in Outcomes, NEW inside \in Flags, NEW todo \in Todos, NEW orDescribe \in Flags
      PROVE  [call EXCEPT ![c].result = result, ![c].inside = inside, ![c].todo = todo,
                          ![c].orDescribe = orDescribe, ![c].at = at] \in [Calls -> CallType]
  <2> DEFINE r1 == [call[c] EXCEPT !.result = result]
             r2 == [r1 EXCEPT !.inside = inside]
             r3 == [r2 EXCEPT !.todo = todo]
             r4 == [r3 EXCEPT !.orDescribe = orDescribe]
             r5 == [r4 EXCEPT !.at = at]
  <2>1. r5 \in CallType
    <3> HIDE DEF r5, r4, r3, r2, r1
    <3>1. r1 \in CallType
      BY <1>a, Constants DEF r1
    <3>2. r2 \in CallType
      BY <1>a, <3>1, Constants DEF r2
    <3>3. r3 \in CallType
      BY <1>a, <3>2, Constants DEF r3
    <3>4. r4 \in CallType
      BY <1>a, <3>3, Constants DEF r4
    <3>5. QED
      BY <1>a, <3>4, Constants DEF r5
  <2>2. [call EXCEPT ![c].result = result, ![c].inside = inside, ![c].todo = todo,
                     ![c].orDescribe = orDescribe, ![c].at = at] = [call EXCEPT ![c] = r5]
    OBVIOUS
  <2>3. QED
    <3> HIDE DEF r5
    <3> QED BY <1>b, <2>1, <2>2
<1>7. [call EXCEPT ![c].at = at] \in [Calls -> CallType]
  BY DEF CallType
<1> HIDE DEF Typed, CallType
<1>8. QED
  BY <1>1, <1>2, <1>3, <1>4, <1>5, <1>6, <1>7

\* A working call's fields.
LEMMA CallFields ==
  ASSUME Typed, CallInv, NEW c \in Calls
  PROVE  /\ call[c].ask \in Wants /\ call[c].at \in Places /\ call[c].todo \in Todos
         /\ call[c].pool \in Nat /\ call[c].inside \in Flags /\ call[c].orDescribe \in Flags
         /\ call[c].result \in Outcomes
         /\ call[c].at \in Working => call[c].ask \in Asks /\ Dialect(c) \in Dialects /\ call[c].todo # <<>>
  BY DEF Typed, CallType, CallInv

-----------------------------------------------------------------------------
LEMMA InitInv == EngineAssumption /\ Init => Inv
<1> SUFFICES ASSUME EngineAssumption, Init PROVE Inv
  OBVIOUS
<1>1. Typed
  <2>1. [ask |-> NoAsk, at |-> "idle", todo |-> <<>>, orDescribe |-> FALSE, pool |-> 0,
         inside |-> FALSE, result |-> "none"] \in CallType
    BY Constants DEF CallType, Wants
  <2>2. <<>> \in Seq(PoolType) /\ <<>> \in Seq(Nat)
    BY EmptySeq
  <2>3. QED
    BY <2>1, <2>2 DEF Init, Typed
<1>2. CallInv /\ OwnPool /\ NewPools
  BY DEF Init, CallInv, OwnPool, NewPools, Working
<1>3. CacheInv /\ OutInv /\ NoTransactionLeft /\ GivenPools
  BY DEF Init, CacheInv, OutInv, NoTransactionLeft, GivenPools
<1>4. CacheIsSound
  BY DEF EngineAssumption, Init, CacheIsSound
<1> QED
  BY <1>1, <1>2, <1>3, <1>4 DEF Inv

LEMMA NextTyped == EngineAssumption /\ Inv /\ [Next]_vars => Typed'
<1> SUFFICES ASSUME EngineAssumption, Inv, [Next]_vars PROVE Typed'
  OBVIOUS
<1>0. Typed /\ CallInv /\ OwnPool
  BY DEF Inv
<1>1. CASE UNCHANGED vars
  BY <1>0, <1>1 DEF vars, Typed
<1>a. \A c \in Calls, at \in Places : [call EXCEPT ![c].at = at] \in [Calls -> CallType]
  BY <1>0, CallChanges
<1>2. ASSUME NEW c \in Calls, Start(c) PROVE Typed'
  <2>1. PICK ask \in Asks :
          call' = [call EXCEPT ![c].ask = ask, ![c].at = IF Admitted(ask) THEN "lock" ELSE "refused",
                               ![c].todo = Statements(ask).todo,
                               ![c].orDescribe = Statements(ask).orDescribe]
    BY <1>2 DEF Start
  <2>2. /\ ask \in Wants
        /\ (IF Admitted(ask) THEN "lock" ELSE "refused") \in Places
        /\ Statements(ask).todo \in Todos /\ Statements(ask).orDescribe \in Flags
    BY WhatStatementsAre, Constants DEF EngineAssumption, Wants
  <2>3. call' \in [Calls -> CallType]
    <3> DEFINE at == IF Admitted(ask) THEN "lock" ELSE "refused"
    <3>1. at \in Places /\ call' = [call EXCEPT ![c].ask = ask, ![c].at = at,
             ![c].todo = Statements(ask).todo, ![c].orDescribe = Statements(ask).orDescribe]
      BY <2>1, <2>2
    <3> HIDE DEF at
    <3>2. \A a \in Wants, t \in Todos, o \in Flags :
            [call EXCEPT ![c].ask = a, ![c].at = at, ![c].todo = t, ![c].orDescribe = o] \in [Calls -> CallType]
      BY <1>0, <3>1, CallChanges
    <3>3. QED
      BY <2>2, <3>1, <3>2
  <2>4. QED
    BY <1>0, <1>2, <2>3 DEF Start, Typed
<1>3. ASSUME NEW c \in Calls, Lock(c) \/ BuildFails(c)
      PROVE Typed'
  <2>1. call' \in [Calls -> CallType]
    <3>1. CASE Lock(c)
      BY <1>a, <3>1, Constants DEF Lock
    <3>2. CASE BuildFails(c)
      BY <1>a, <3>2, Constants DEF BuildFails
    <3>3. QED
      BY <1>3, <3>1, <3>2
  <2>2. mutex' \in [Dialects -> Calls \cup {Free}]
    BY <1>0, <1>3 DEF Lock, BuildFails, Unlock, Typed
  <2>3. QED
    BY <1>0, <1>3, <2>1, <2>2 DEF Lock, BuildFails, Typed
<1>4. ASSUME NEW c \in Calls,
             RunNothing(c) \/ AcquireFails(c) \/ Begin(c) \/ RunInside(c)
      PROVE Typed'
  <2>1. Results(c) \subseteq Outcomes
    BY Constants DEF Results
  <2>2. CASE RunNothing(c)
    <3>1. \A todo \in Todos : [call EXCEPT ![c].at = "done", ![c].todo = todo] \in [Calls -> CallType]
      BY <1>0, CallChanges, Constants
    <3>2. call' \in [Calls -> CallType]
      BY <2>2, <3>1, Constants DEF RunNothing
    <3>3. QED
      BY <1>0, <2>2, <3>2 DEF RunNothing, Typed
  <2>a. CASE AcquireFails(c)
    BY <1>0, <1>a, <2>a, Constants DEF AcquireFails, Typed
  <2>3. CASE Begin(c)
    <3>1. \A inside \in Flags : [call EXCEPT ![c].at = "run", ![c].inside = inside] \in [Calls -> CallType]
      BY <1>0, CallChanges, Constants
    <3>2. call' \in [Calls -> CallType]
      BY <2>3, <3>1, Constants DEF Begin
    <3>3. QED
      BY <1>0, <2>3, <3>2 DEF Begin, Typed
  <2>4. CASE RunInside(c)
    <3>1. PICK result \in Results(c) : call' = [call EXCEPT ![c].result = result, ![c].at = "rollback"]
      BY <2>4 DEF RunInside
    <3>2. call' \in [Calls -> CallType]
      BY <1>0, <2>1, <3>1, CallChanges, Constants
    <3>3. QED
      BY <1>0, <2>4, <3>2 DEF RunInside, Typed
  <2>5. QED
    BY <1>4, <2>2, <2>3, <2>4, <2>a

<1>5. ASSUME NEW c \in Calls, Hit(c) PROVE Typed'
  <2> DEFINE kept == cache[Dialect(c)]
  <2>1. PICK i \in Fitting(c) :
          /\ cache' = [cache EXCEPT ![Dialect(c)] = Append(RemoveAt(kept, i), kept[i])]
          /\ call' = [call EXCEPT ![c].pool = kept[i], ![c].at = "acquire"]
    BY <1>5 DEF Hit
  <2>2. At(c, "look") /\ Unlock(c) /\ UNCHANGED pools
    BY <1>5 DEF Hit
  <2>3. Dialect(c) \in Dialects
    BY <1>0, <2>2, CallFields DEF At, Working
  <2>4. kept \in Seq(Nat) /\ i \in 1..Len(kept) /\ kept[i] \in Nat
    BY <1>0, <2>3, CacheNumbers DEF Fitting
  <2>5. Append(RemoveAt(kept, i), kept[i]) \in Seq(Nat)
    BY <2>4, MovedToTheEnd
  <2>6. call' \in [Calls -> CallType]
    BY <1>0, <2>1, <2>4, CallChanges, Constants
  <2>7. cache' \in [Dialects -> Seq(Nat)]
    <3> HIDE DEF kept
    <3> QED BY <1>0, <2>1, <2>5 DEF Typed
  <2>8. QED
    BY <1>0, <2>2, <2>3, <2>6, <2>7 DEF Unlock, Typed
<1>6. ASSUME NEW c \in Calls, Build(c) PROVE Typed'
  <2>2. Url(c) \in {ConnUrl(ask) : ask \in Asks}
    BY <1>0, <1>6 DEF Build, At, CallInv, Working, Url
  <2>3. [url |-> Url(c), state |-> "open", out |-> {}, left |-> FALSE] \in PoolType
    BY <2>2 DEF PoolType
  <2>4. pools' \in Seq(PoolType)
    BY <1>0, <1>6, <2>3, AppendProperties DEF Build, Typed
  <2>5. Len(pools) + 1 \in Nat
    BY <1>0, LenProperties DEF Typed
  <2>6. call' \in [Calls -> CallType]
    BY <1>0, <1>6, <2>5, CallChanges, Constants DEF Build
  <2>7. QED
    BY <1>0, <1>6, <2>4, <2>6 DEF Build, Typed
<1>7. ASSUME NEW p \in DOMAIN pools, NEW r \in PoolType, pools' = [pools EXCEPT ![p] = r]
      PROVE  pools' \in Seq(PoolType)
  BY <1>0, <1>7, PoolChanges DEF Typed
<1>8. ASSUME NEW c \in Calls, Evict(c) PROVE Typed'
  <2> DEFINE d == Dialect(c)
             victim == Head(cache[d])
  <2>1. d \in Dialects /\ d = "server" /\ Len(cache[d]) >= MaxCachedPools
    BY <1>0, <1>8, CallFields DEF Evict, At, Working, Full
  <2>2. cache[d] \in Seq(Nat) /\ cache[d] # <<>> /\ 1 \in DOMAIN cache[d]
    BY <1>0, <2>1, CacheNumbers DEF EngineAssumption
  <2>3. victim = cache[d][1] /\ Tail(cache[d]) \in Seq(Nat)
    BY <2>2, HeadTailProperties
  <2>4. victim \in DOMAIN pools
    BY <2>1, <2>2, <2>3 DEF Inv, CacheInv
  <2>5. [pools[victim] EXCEPT !.state = "closing"] \in PoolType
    BY <1>0, <2>4, PoolNumbers DEF PoolType, Typed
  <2>6. pools' = [pools EXCEPT ![victim] = [pools[victim] EXCEPT !.state = "closing"]]
    BY <1>8 DEF Evict
  <2>7. pools' \in Seq(PoolType)
    BY <1>7, <2>4, <2>5, <2>6
  <2>8. call' \in [Calls -> CallType]
    BY <1>0, <1>8, CallChanges, Constants DEF Evict
  <2>9. cache' \in [Dialects -> Seq(Nat)]
    BY <1>0, <1>8, <2>3 DEF Evict, Typed
  <2>10. QED
    BY <1>0, <1>8, <2>7, <2>8, <2>9 DEF Evict, Typed
<1>9. ASSUME NEW c \in Calls, Closed(c) PROVE Typed'
  <2>1. PICK p \in DOMAIN pools : pools' = [pools EXCEPT ![p].state = "closed"]
    BY <1>9 DEF Closed
  <2>2. [pools[p] EXCEPT !.state = "closed"] \in PoolType
    BY <1>0, PoolNumbers DEF PoolType, Typed
  <2>3. pools' = [pools EXCEPT ![p] = [pools[p] EXCEPT !.state = "closed"]]
    BY <2>1
  <2>4. pools' \in Seq(PoolType)
    BY <1>7, <2>2, <2>3
  <2>5. call' \in [Calls -> CallType]
    BY <1>0, <1>9, CallChanges, Constants DEF Closed
  <2>6. QED
    BY <1>0, <1>9, <2>4, <2>5 DEF Closed, Typed
<1>10. ASSUME NEW c \in Calls, Insert(c) PROVE Typed'
  <2>1. Dialect(c) \in Dialects /\ call[c].pool \in Nat
    BY <1>0, <1>10, CallFields DEF Insert, At, Working
  <2>2. Append(cache[Dialect(c)], call[c].pool) \in Seq(Nat)
    BY <1>0, <2>1, CacheNumbers, AppendProperties
  <2>3. call' \in [Calls -> CallType]
    BY <1>0, <1>10, CallChanges, Constants DEF Insert
  <2>4. QED
    BY <1>0, <1>10, <2>1, <2>2, <2>3 DEF Insert, Unlock, Typed
<1>11. ASSUME NEW c \in Calls, Acquire(c) PROVE Typed'
  <2> DEFINE p == call[c].pool
  <2>1. p \in DOMAIN pools
    BY <1>0, <1>11 DEF Acquire, At, OwnPool
  <2>2. [pools[p] EXCEPT !.out = @ \cup {c}] \in PoolType
    BY <1>0, <2>1, PoolNumbers DEF PoolType, Typed
  <2>3. pools' = [pools EXCEPT ![p] = [pools[p] EXCEPT !.out = @ \cup {c}]]
    BY <1>11 DEF Acquire
  <2>4. pools' \in Seq(PoolType)
    BY <1>7, <2>1, <2>2, <2>3
  <2>5. (IF InTransaction(c) THEN "begin" ELSE "run") \in Places
    BY Constants
  <2>6. call' \in [Calls -> CallType]
    BY <1>0, <1>11, <2>5, CallChanges DEF Acquire
  <2>7. QED
    BY <1>0, <1>11, <2>4, <2>6 DEF Acquire, Typed
<1>12. ASSUME NEW c \in Calls, BeginFails(c) \/ RunAlone(c) \/ Rollback(c), GiveBack(c, FALSE),
              call' \in [Calls -> CallType], UNCHANGED <<cache, mutex>>
       PROVE  Typed'
  <2> DEFINE p == call[c].pool
             r == [pools[p] EXCEPT !.out = @ \ {c}, !.left = @ \/ FALSE]
  <2>1. p \in DOMAIN pools
    BY <1>0, <1>12 DEF BeginFails, RunAlone, Rollback, At, OwnPool
  <2>2. r \in PoolType
    BY <1>0, <2>1, PoolNumbers DEF PoolType, Typed
  <2>3. pools' = [pools EXCEPT ![p] = r]
    BY <1>12 DEF GiveBack
  <2>4. pools' \in Seq(PoolType)
    BY <1>7, <2>1, <2>2, <2>3
  <2>5. QED
    BY <1>0, <1>12, <2>4 DEF Typed
<1>13. ASSUME NEW c \in Calls, BeginFails(c) PROVE Typed'
  <2>1. call' \in [Calls -> CallType]
    BY <1>0, <1>13, CallChanges, Constants DEF BeginFails
  <2>2. QED
    BY <1>12, <1>13, <2>1 DEF BeginFails
<1>14. ASSUME NEW c \in Calls, NEW result, Leave(c, result), At(c, "run") \/ At(c, "rollback")
       PROVE  call' \in [Calls -> CallType]
  <2>1. call[c].todo # <<>>
    BY <1>0, <1>14, CallFields DEF At, Working
  <2>2. Rest(c, result) \in Todos
    BY <1>0, <2>1, WhatIsLeft
  <2> DEFINE todo == IF result = "error" THEN <<>> ELSE Rest(c, result)
             orDescribe == call[c].orDescribe /\ Len(call[c].todo) > 1
             at == IF result = "error" THEN "failed" ELSE IF Rest(c, result) = <<>> THEN "done" ELSE "lock"
  <2>3. todo \in Todos /\ orDescribe \in Flags /\ at \in Places
    BY <2>2, Constants DEF Flags
  <2>4. call' = [call EXCEPT ![c].result = "none", ![c].inside = FALSE, ![c].todo = todo,
                             ![c].orDescribe = orDescribe, ![c].at = at]
    BY <1>14 DEF Leave
  <2> HIDE DEF todo, orDescribe, at
  <2>5. QED
    BY <1>0, <2>3, <2>4, CallChanges, Constants, ZenonT(20)
<1>15. ASSUME NEW c \in Calls, RunAlone(c) PROVE Typed'
  BY <1>12, <1>14, <1>15 DEF RunAlone, Leave
<1>16. ASSUME NEW c \in Calls, Rollback(c) PROVE Typed'
  BY <1>12, <1>14, <1>16 DEF Rollback, Leave
<1> QED
  BY <1>1, <1>2, <1>3, <1>4, <1>5, <1>6, <1>8, <1>9, <1>10, <1>11, <1>13, <1>15, <1>16 DEF Next, Step


-----------------------------------------------------------------------------
\* A step is about one call, and leaves its question alone.
LEMMA OthersStay ==
  ASSUME Typed, NEW c \in Calls, Start(c) \/ Step(c)
  PROVE  /\ \A e \in Calls \ {c} : call'[e] = call[e]
         /\ Step(c) => call'[c].ask = call[c].ask
<1>1. call \in [Calls -> CallType]
  BY DEF Typed
<1> HIDE DEF CallType
<1>2. CASE Start(c)
  BY <1>1, <1>2 DEF Start, Step, Lock, Hit, Build, BuildFails, Evict, Closed, Insert, RunNothing, Acquire,
     AcquireFails, Begin, BeginFails, RunInside, RunAlone, Rollback, Leave, At
<1>3. CASE Lock(c) \/ Hit(c) \/ Build(c) \/ BuildFails(c) \/ Evict(c) \/ Closed(c) \/ Insert(c)
  BY <1>1, <1>3, ZenonT(20) DEF Lock, Hit, Build, BuildFails, Evict, Closed, Insert, CallType
<1>4. CASE RunNothing(c) \/ Acquire(c) \/ AcquireFails(c) \/ Begin(c) \/ BeginFails(c)
  BY <1>1, <1>4 DEF RunNothing, Acquire, AcquireFails, Begin, BeginFails, CallType
<1>5. CASE RunInside(c)
  <2>1. PICK result : call' = [call EXCEPT ![c].result = result, ![c].at = "rollback"]
    BY <1>5 DEF RunInside
  <2>2. QED
    BY <1>1, <2>1 DEF CallType
<1>6. ASSUME NEW result, Leave(c, result)
      PROVE  (\A e \in Calls \ {c} : call'[e] = call[e]) /\ call'[c].ask = call[c].ask
  BY <1>1, <1>6 DEF Leave, CallType
<1>7. CASE RunAlone(c) \/ Rollback(c)
  BY <1>6, <1>7 DEF RunAlone, Rollback
<1>8. QED
  BY <1>2, <1>3, <1>4, <1>5, <1>7 DEF Step

\* What a step does to the call it is about.
Keeps(c) ==
  call'[c].ask = call[c].ask /\ call'[c].todo = call[c].todo /\ call'[c].pool = call[c].pool

LEMMA StepOfCall ==
  ASSUME Typed, NEW c \in Calls
  PROVE  /\ Lock(c) => Keeps(c) /\ call'[c].at = "look"
         /\ Hit(c) => call'[c].todo = call[c].todo /\ call'[c].at = "acquire"
         /\ Build(c) => /\ call'[c].todo = call[c].todo /\ call'[c].at = "evict"
                        /\ call'[c].pool = Len(pools) + 1
         /\ Evict(c) => Keeps(c) /\ call'[c].at = "close"
         /\ Closed(c) => Keeps(c) /\ call'[c].at = "evict"
         /\ Insert(c) => Keeps(c) /\ call'[c].at = "acquire"
         /\ Acquire(c) => Keeps(c) /\ call'[c].at \in {"begin", "run"}
         /\ Begin(c) => Keeps(c) /\ call'[c].at = "run"
         /\ RunInside(c) => Keeps(c) /\ call'[c].at = "rollback"
         /\ BuildFails(c) \/ AcquireFails(c) \/ BeginFails(c) => call'[c].at = "failed"
         /\ RunNothing(c) => call'[c].at = "done"
         /\ RunAlone(c) \/ Rollback(c) =>
              /\ call'[c].at \in {"failed", "done", "lock"}
              /\ call'[c].at = "lock" => call'[c].todo # <<>>
<1> USE DEF Keeps
<1>1. call \in [Calls -> CallType] /\ call[c] \in CallType
  BY DEF Typed
<1>2. /\ Lock(c) => Keeps(c) /\ call'[c].at = "look"
      /\ Evict(c) => Keeps(c) /\ call'[c].at = "close"
      /\ Closed(c) => Keeps(c) /\ call'[c].at = "evict"
      /\ Insert(c) => Keeps(c) /\ call'[c].at = "acquire"
  BY <1>1 DEF Lock, Evict, Closed, Insert, CallType
<1>3. /\ Hit(c) => call'[c].todo = call[c].todo /\ call'[c].at = "acquire"
      /\ Build(c) => /\ call'[c].todo = call[c].todo /\ call'[c].at = "evict"
                     /\ call'[c].pool = Len(pools) + 1
  BY <1>1, ZenonT(20) DEF Hit, Build, CallType
<1>4. /\ Acquire(c) => Keeps(c) /\ call'[c].at \in {"begin", "run"}
      /\ Begin(c) => Keeps(c) /\ call'[c].at = "run"
  BY <1>1 DEF Acquire, Begin, CallType
<1>5. RunInside(c) => Keeps(c) /\ call'[c].at = "rollback"
  <2>1. ASSUME NEW result, call' = [call EXCEPT ![c].result = result, ![c].at = "rollback"]
        PROVE  Keeps(c) /\ call'[c].at = "rollback"
    BY <1>1, <2>1 DEF CallType
  <2>2. QED
    BY <2>1 DEF RunInside
<1>6. /\ BuildFails(c) \/ AcquireFails(c) \/ BeginFails(c) => call'[c].at = "failed"
      /\ RunNothing(c) => call'[c].at = "done"
  BY <1>1 DEF BuildFails, AcquireFails, BeginFails, RunNothing, CallType
<1>7. ASSUME NEW result, Leave(c, result)
      PROVE  /\ call'[c].at \in {"failed", "done", "lock"}
             /\ call'[c].at = "lock" => call'[c].todo # <<>>
  <2> DEFINE todo == IF result = "error" THEN <<>> ELSE Rest(c, result)
             orDescribe == call[c].orDescribe /\ Len(call[c].todo) > 1
             at == IF result = "error" THEN "failed" ELSE IF Rest(c, result) = <<>> THEN "done" ELSE "lock"
  <2>1. call' = [call EXCEPT ![c].result = "none", ![c].inside = FALSE, ![c].todo = todo,
                             ![c].orDescribe = orDescribe, ![c].at = at]
    BY <1>7 DEF Leave
  <2>2. at \in {"failed", "done", "lock"} /\ (at = "lock" => todo # <<>>)
    OBVIOUS
  <2> HIDE DEF todo, orDescribe, at
  <2>3. call'[c].at = at /\ call'[c].todo = todo
    BY <1>1, <2>1 DEF CallType
  <2>4. QED
    BY <2>2, <2>3
<1>8. QED
  BY <1>2, <1>3, <1>4, <1>5, <1>6, <1>7 DEF RunAlone, Rollback

\* Nobody takes a mutex from the call that holds it.
LEMMA MutexStays ==
  ASSUME EngineAssumption, Typed, CallInv, NEW c \in Calls, Start(c) \/ Step(c), NEW e \in Calls \ {c},
         call[e].at \in {"look", "evict", "close"}
  PROVE  mutex'[Dialect(e)] = e
<1>1. mutex[Dialect(e)] = e /\ Dialect(e) \in Dialects
  BY DEF CallInv, Working
<1>2. CASE Lock(c)
  BY <1>1, <1>2 DEF Lock, Typed, EngineAssumption
<1>3. CASE Hit(c) \/ BuildFails(c) \/ Insert(c)
  <2>1. mutex[Dialect(c)] = c /\ mutex' = [mutex EXCEPT ![Dialect(c)] = Free]
    BY <1>3 DEF Hit, BuildFails, Insert, Unlock, At, CallInv
  <2>2. QED
    BY <1>1, <2>1 DEF Typed
<1>4. CASE Start(c) \/ Build(c) \/ Evict(c) \/ Closed(c)
  BY <1>1, <1>4 DEF Start, Build, Evict, Closed
<1>5. CASE \/ RunNothing(c) \/ Acquire(c) \/ AcquireFails(c) \/ Begin(c) \/ BeginFails(c)
           \/ RunInside(c) \/ RunAlone(c) \/ Rollback(c)
  BY <1>1, <1>5 DEF RunNothing, Acquire, AcquireFails, Begin, BeginFails, RunInside, RunAlone, Rollback, Leave
<1>6. QED
  BY <1>2, <1>3, <1>4, <1>5 DEF Step

\* The calls that are at work on a statement have one.
LEMMA NextCallInv == EngineAssumption /\ Inv /\ [Next]_vars => CallInv'
<1> SUFFICES ASSUME EngineAssumption, Inv, [Next]_vars PROVE CallInv'
  OBVIOUS
<1>0. Typed /\ CallInv /\ call \in [Calls -> CallType]
  BY DEF Inv, Typed
<1>1. CASE UNCHANGED vars
  BY <1>0, <1>1 DEF vars, CallInv, Dialect
<1>2. ASSUME NEW c \in Calls, Start(c) \/ Step(c),
             call'[c].at \in Working =>
               call'[c].ask \in Asks /\ call'[c].ask.scheme \in Dialects /\ call'[c].todo # <<>>,
             call'[c].at \in {"look", "evict", "close"} => mutex'[call'[c].ask.scheme] = c
      PROVE  CallInv'
  <2>1. \A e \in Calls \ {c} : call'[e] = call[e]
    BY <1>0, <1>2, OthersStay
  <2>2. ASSUME NEW e \in Calls \ {c}, call[e].at \in {"look", "evict", "close"}
        PROVE  mutex'[Dialect(e)] = e
    BY <1>0, <1>2, <2>2, MutexStays
  <2>3. QED
    BY <1>0, <1>2, <2>1, <2>2 DEF CallInv, Dialect
<1>3. ASSUME NEW c \in Calls, Start(c) PROVE CallInv'
  <2>1. PICK ask \in Asks :
          call' = [call EXCEPT ![c].ask = ask, ![c].at = IF Admitted(ask) THEN "lock" ELSE "refused",
                               ![c].todo = Statements(ask).todo,
                               ![c].orDescribe = Statements(ask).orDescribe]
    BY <1>3 DEF Start
  <2>2. /\ call'[c].ask = ask /\ call'[c].at = IF Admitted(ask) THEN "lock" ELSE "refused"
        /\ call'[c].todo = Statements(ask).todo
    BY <1>0, <2>1 DEF CallType
  <2>3. ask \in Asked /\ Statements(ask).todo # <<>>
    BY WhatStatementsAre DEF EngineAssumption
  <2>4. QED
    BY <1>2, <1>3, <2>2, <2>3 DEF Admitted, ParseDbUri, Working
<1>4. ASSUME NEW c \in Calls, Step(c) PROVE CallInv'
  <2>1. call[c].at \in Working
    BY <1>4 DEF Step, Lock, Hit, Build, BuildFails, Evict, Closed, Insert, RunNothing, Acquire,
       AcquireFails, Begin, BeginFails, RunInside, RunAlone, Rollback, At, Working
  <2>2. call'[c].ask = call[c].ask /\ call[c].ask \in Asks /\ Dialect(c) \in Dialects /\ call[c].todo # <<>>
    BY <1>0, <1>4, <2>1, OthersStay DEF CallInv
  <2>3. call'[c].at \in Working => call'[c].todo # <<>>
    BY <1>0, <1>4, <2>2, StepOfCall DEF Step, Keeps, Working
  <2>4. call'[c].at \in {"look", "evict", "close"} => mutex'[Dialect(c)] = c
    <3>1. CASE Lock(c)
      BY <1>0, <2>2, <3>1 DEF Lock, Typed
    <3>2. CASE Build(c) \/ Evict(c) \/ Closed(c)
      BY <1>0, <3>2 DEF Build, Evict, Closed, At, CallInv
    <3>3. CASE ~(Lock(c) \/ Build(c) \/ Evict(c) \/ Closed(c))
      BY <1>0, <1>4, <3>3, StepOfCall DEF Step
    <3>4. QED
      BY <3>1, <3>2, <3>3
  <2>5. QED
    BY <1>2, <1>4, <2>2, <2>3, <2>4 DEF Dialect
<1>6. QED
  BY <1>1, <1>3, <1>4 DEF Next


-----------------------------------------------------------------------------
\* The pool that is evicted is a cached one, of a server.
LEMMA Victim ==
  ASSUME EngineAssumption, Inv, NEW c \in Calls, Evict(c)
  PROVE  /\ Dialect(c) = "server" /\ Dialect(c) \in Dialects
         /\ cache[Dialect(c)] \in Seq(Nat) /\ cache[Dialect(c)] # <<>>
         /\ 1 \in DOMAIN cache[Dialect(c)]
         /\ Head(cache[Dialect(c)]) = cache[Dialect(c)][1]
         /\ Head(cache[Dialect(c)]) \in DOMAIN pools
<1>1. /\ Dialect(c) = "server" /\ Dialect(c) \in Dialects
      /\ Len(cache[Dialect(c)]) >= MaxCachedPools
  BY DEF Evict, Full, Dialects
<1>2. /\ cache[Dialect(c)] \in Seq(Nat) /\ cache[Dialect(c)] # <<>>
      /\ 1 \in DOMAIN cache[Dialect(c)]
  BY <1>1, CacheNumbers DEF EngineAssumption, Inv
<1>3. QED
  BY <1>1, <1>2 DEF Inv, CacheInv

\* What a step does to the pools there are: it may close one that is evicted, lend
\* or return a connection, and open a new pool behind them.
NewPool(c) == [url |-> Url(c), state |-> "open", out |-> {}, left |-> FALSE]

LEMMA PoolsStep ==
  ASSUME EngineAssumption, Inv, NEW c \in Calls, Start(c) \/ Step(c)
  PROVE  /\ DOMAIN pools \subseteq DOMAIN pools'
         /\ \A p \in DOMAIN pools :
              /\ pools'[p].url = pools[p].url
              /\ ~pools[p].left => ~pools'[p].left
              /\ pools[p].state = "open" =>
                   pools'[p].state = "open" \/ (Evict(c) /\ p = Head(cache[Dialect(c)]))
         /\ Build(c) => /\ DOMAIN pools' = DOMAIN pools \cup {Len(pools) + 1}
                        /\ pools'[Len(pools) + 1] = NewPool(c)
                        /\ Len(pools) + 1 \notin DOMAIN pools
         /\ ~Build(c) => DOMAIN pools' = DOMAIN pools
<1>0. Typed /\ pools \in Seq(PoolType)
  BY DEF Inv, Typed
<1>1. /\ DOMAIN pools = 1..Len(pools) /\ Len(pools) \in Nat
      /\ \A p \in DOMAIN pools : pools[p] \in PoolType
  BY <1>0, PoolNumbers
<1>2. CASE UNCHANGED pools /\ ~Build(c)
  BY <1>1, <1>2
<1>3. CASE Build(c)
  <2>1. pools' = Append(pools, NewPool(c))
    BY <1>3 DEF Build, NewPool
  <2>2. NewPool(c) \in PoolType
    BY <1>3 DEF Inv, Build, At, CallInv, Working, Url, NewPool, PoolType
  <2>3. /\ pools' \in Seq(PoolType) /\ Len(pools') = Len(pools) + 1
        /\ \A p \in 1..Len(pools) : pools'[p] = pools[p]
        /\ pools'[Len(pools) + 1] = NewPool(c)
    BY <1>0, <2>1, <2>2, AppendProperties
  <2>4. DOMAIN pools' = 1..(Len(pools) + 1)
    BY <2>3, LenProperties
  <2>5. QED
    BY <1>1, <1>3, <2>3, <2>4
<1>4. ASSUME NEW p \in DOMAIN pools, NEW r \in PoolType, pools' = [pools EXCEPT ![p] = r]
      PROVE  DOMAIN pools' = DOMAIN pools /\ pools'[p] = r /\ \A q \in DOMAIN pools : q # p => pools'[q] = pools[q]
  BY <1>0, <1>4, PoolChanges
<1>5. CASE Evict(c)
  <2> DEFINE p == Head(cache[Dialect(c)])
             r == [pools[p] EXCEPT !.state = "closing"]
  <2>1. p \in DOMAIN pools
    BY <1>5, Victim
  <2>2. r \in PoolType /\ r.url = pools[p].url /\ r.left = pools[p].left
    BY <1>1, <2>1 DEF PoolType
  <2>3. pools' = [pools EXCEPT ![p] = r]
    BY <1>5 DEF Evict
  <2>4. ~Build(c)
    BY <1>5 DEF Evict, Build, At
  <2> HIDE DEF p, r
  <2>5. DOMAIN pools' = DOMAIN pools /\ pools'[p] = r /\ \A q \in DOMAIN pools : q # p => pools'[q] = pools[q]
    BY <1>4, <2>1, <2>2, <2>3
  <2>6. QED
    BY <1>5, <2>2, <2>4, <2>5 DEF p
<1>6. CASE Closed(c)
  <2>1. PICK p \in DOMAIN pools : pools[p].state = "closing" /\ pools' = [pools EXCEPT ![p].state = "closed"]
    BY <1>6 DEF Closed
  <2> DEFINE r == [pools[p] EXCEPT !.state = "closed"]
  <2>2. r \in PoolType /\ r.url = pools[p].url /\ r.left = pools[p].left
    BY <1>1 DEF PoolType
  <2>3. pools' = [pools EXCEPT ![p] = r]
    BY <2>1
  <2>4. ~Build(c)
    BY <1>6 DEF Closed, Build, At
  <2> HIDE DEF r
  <2>5. DOMAIN pools' = DOMAIN pools /\ pools'[p] = r /\ \A q \in DOMAIN pools : q # p => pools'[q] = pools[q]
    BY <1>4, <2>2, <2>3
  <2>6. QED
    BY <2>1, <2>2, <2>4, <2>5
<1>7. CASE Acquire(c)
  <2> DEFINE p == call[c].pool
             r == [pools[p] EXCEPT !.out = @ \cup {c}]
  <2>1. p \in DOMAIN pools
    BY <1>7 DEF Inv, Acquire, At, OwnPool
  <2>2. r \in PoolType /\ r.url = pools[p].url /\ r.left = pools[p].left /\ r.state = pools[p].state
    BY <1>1, <2>1 DEF PoolType
  <2>3. pools' = [pools EXCEPT ![p] = r]
    BY <1>7 DEF Acquire
  <2>4. ~Build(c)
    BY <1>7 DEF Acquire, Build, At
  <2> HIDE DEF p, r
  <2>5. DOMAIN pools' = DOMAIN pools /\ pools'[p] = r /\ \A q \in DOMAIN pools : q # p => pools'[q] = pools[q]
    BY <1>4, <2>1, <2>2, <2>3
  <2>6. QED
    BY <2>2, <2>4, <2>5
<1>8. CASE BeginFails(c) \/ RunAlone(c) \/ Rollback(c)
  <2> DEFINE p == call[c].pool
             r == [pools[p] EXCEPT !.out = @ \ {c}, !.left = @ \/ FALSE]
  <2>1. p \in DOMAIN pools
    BY <1>8 DEF Inv, BeginFails, RunAlone, Rollback, At, OwnPool
  <2>2. r \in PoolType /\ r.url = pools[p].url /\ r.state = pools[p].state /\ (~pools[p].left => ~r.left)
    BY <1>1, <2>1 DEF PoolType
  <2>3. pools' = [pools EXCEPT ![p] = r]
    BY <1>8 DEF BeginFails, RunAlone, Rollback, GiveBack
  <2>4. ~Build(c)
    BY <1>8 DEF BeginFails, RunAlone, Rollback, Build, At
  <2> HIDE DEF p, r
  <2>5. DOMAIN pools' = DOMAIN pools /\ pools'[p] = r /\ \A q \in DOMAIN pools : q # p => pools'[q] = pools[q]
    BY <1>4, <2>1, <2>2, <2>3
  <2>6. QED
    BY <2>2, <2>4, <2>5
<1>9. QED
  BY <1>2, <1>3, <1>5, <1>6, <1>7, <1>8
     DEF Step, Start, Lock, Hit, BuildFails, Insert, RunNothing, AcquireFails, Begin, RunInside

\* A call uses the pool of its URL.
LEMMA NextOwnPool == EngineAssumption /\ Inv /\ [Next]_vars => OwnPool'
<1> SUFFICES ASSUME EngineAssumption, Inv, [Next]_vars PROVE OwnPool'
  OBVIOUS
<1>0. Typed /\ OwnPool
  BY DEF Inv
<1>1. CASE UNCHANGED vars
  BY <1>0, <1>1 DEF vars, OwnPool, Url
<1>2. ASSUME NEW c \in Calls, Start(c) \/ Step(c),
             call'[c].at \in {"evict", "close", "acquire", "begin", "run", "rollback"} =>
               call'[c].pool \in DOMAIN pools' /\ pools'[call'[c].pool].url = ConnUrl(call'[c].ask)
      PROVE  OwnPool'
  <2>1. \A e \in Calls \ {c} : call'[e] = call[e]
    BY <1>0, <1>2, OthersStay
  <2>2. DOMAIN pools \subseteq DOMAIN pools' /\ \A p \in DOMAIN pools : pools'[p].url = pools[p].url
    BY <1>2, PoolsStep
  <2>3. QED
    BY <1>0, <1>2, <2>1, <2>2 DEF OwnPool, Url
<1>3. ASSUME NEW c \in Calls, Start(c) PROVE OwnPool'
  <2>1. call'[c].at \in {"lock", "refused"}
    BY <1>0, <1>3 DEF Start, Typed, CallType
  <2>2. QED
    BY <1>2, <1>3, <2>1
<1>4. ASSUME NEW c \in Calls, Step(c) PROVE OwnPool'
  <2>1. call'[c].ask = call[c].ask
    BY <1>0, <1>4, OthersStay
  <2>2. DOMAIN pools \subseteq DOMAIN pools' /\ \A p \in DOMAIN pools : pools'[p].url = pools[p].url
    BY <1>4, PoolsStep
  <2>3. CASE Hit(c)
    <3>1. PICK i \in Fitting(c) : call' = [call EXCEPT ![c].pool = cache[Dialect(c)][i], ![c].at = "acquire"]
      BY <2>3 DEF Hit
    <3>2. call'[c].pool = cache[Dialect(c)][i]
      BY <1>0, <3>1 DEF Typed, CallType
    <3>3. Dialect(c) \in Dialects
      BY <2>3 DEF Inv, CallInv, Hit, At, Working
    <3>4. call'[c].pool \in DOMAIN pools /\ pools[call'[c].pool].url = Url(c)
      BY <3>2, <3>3 DEF Fitting, Inv, CacheInv
    <3>5. QED
      BY <1>2, <1>4, <2>1, <2>2, <3>4 DEF Url
  <2>4. CASE Build(c)
    <3>1. call'[c].pool = Len(pools) + 1
      BY <1>0, <2>4, StepOfCall
    <3>2. call'[c].pool \in DOMAIN pools' /\ pools'[call'[c].pool] = NewPool(c)
      BY <1>4, <2>4, <3>1, PoolsStep
    <3>3. NewPool(c).url = ConnUrl(call'[c].ask)
      BY <2>1 DEF NewPool, Url
    <3>4. QED
      BY <1>2, <1>4, <3>2, <3>3
  <2>5. CASE Evict(c) \/ Closed(c) \/ Insert(c) \/ Acquire(c) \/ Begin(c) \/ RunInside(c)
    <3>1. call'[c].pool = call[c].pool
      BY <1>0, <2>5, StepOfCall DEF Keeps
    <3>2. call[c].at \in {"evict", "close", "acquire", "begin", "run", "rollback"}
      BY <2>5 DEF Evict, Closed, Insert, Acquire, Begin, RunInside, At
    <3>3. QED
      BY <1>0, <1>2, <1>4, <2>1, <2>2, <3>1, <3>2 DEF OwnPool, Url
  <2>6. CASE Lock(c) \/ BuildFails(c) \/ AcquireFails(c) \/ BeginFails(c) \/ RunNothing(c) \/ RunAlone(c) \/ Rollback(c)
    BY <1>0, <1>2, <1>4, <2>6, StepOfCall
  <2>7. QED
    BY <1>4, <2>3, <2>4, <2>5, <2>6 DEF Step
<1>5. QED
  BY <1>1, <1>3, <1>4 DEF Next


-----------------------------------------------------------------------------
\* What a step does to the caches, but for an insertion: what is in one was in it
\* before, at a place of its own.
CameFrom(f) ==
  \A d \in Dialects :
    /\ Len(cache'[d]) <= Len(cache[d])
    /\ \A j \in DOMAIN cache'[d] :
         f[d][j] \in DOMAIN cache[d] /\ cache'[d][j] = cache[d][f[d][j]]
    /\ \A j, k \in DOMAIN cache'[d] : f[d][j] = f[d][k] => j = k

LEMMA CacheSteps ==
  ASSUME EngineAssumption, Inv, NEW c \in Calls, Start(c) \/ Step(c), ~Insert(c)
  PROVE  \E f : CameFrom(f)
<1>0. Typed /\ cache \in [Dialects -> Seq(Nat)]
  BY DEF Inv, Typed
<1>1. \A d \in Dialects : /\ cache[d] \in Seq(Nat) /\ DOMAIN cache[d] = 1..Len(cache[d])
                          /\ Len(cache[d]) \in Nat
  BY <1>0, CacheNumbers
<1> DEFINE same == [d \in Dialects |-> [j \in Nat |-> j]]
<1>2. CASE UNCHANGED cache
  <2>1. CameFrom(same)
    BY <1>1, <1>2 DEF CameFrom
  <2>2. QED
    BY <2>1
<1>3. CASE Hit(c)
  <2> DEFINE kept == cache[Dialect(c)]
  <2>1. PICK i \in Fitting(c) :
          cache' = [cache EXCEPT ![Dialect(c)] = Append(RemoveAt(kept, i), kept[i])]
    BY <1>3 DEF Hit
  <2>2. Dialect(c) \in Dialects
    BY <1>3 DEF Inv, CallInv, Hit, At, Working
  <2>3. kept \in Seq(Nat) /\ i \in 1..Len(kept) /\ Len(kept) \in Nat
    BY <1>1, <2>2 DEF Fitting
  <2> DEFINE f == [d \in Dialects |-> [j \in Nat |-> IF d = Dialect(c) THEN Moved(Len(kept), i, j) ELSE j]]
             moved == Append(RemoveAt(kept, i), kept[i])
  <2>4. /\ moved \in Seq(Nat) /\ Len(moved) = Len(kept)
        /\ \A j \in 1..Len(kept) : moved[j] = kept[Moved(Len(kept), i, j)]
    BY <2>3, MovedToTheEnd
  <2>5. /\ \A j \in 1..Len(kept) : Moved(Len(kept), i, j) \in 1..Len(kept)
        /\ \A j, k \in 1..Len(kept) : Moved(Len(kept), i, j) = Moved(Len(kept), i, k) => j = k
    BY <2>3, PlacesMove
  <2>6. DOMAIN moved = 1..Len(kept)
    BY <2>4, LenProperties
  <2>7. cache'[Dialect(c)] = moved /\ \A d \in Dialects \ {Dialect(c)} : cache'[d] = cache[d]
    BY <1>0, <2>1, <2>2
  <2> HIDE DEF moved
  <2>8. ASSUME NEW d \in Dialects, d # Dialect(c)
        PROVE  /\ Len(cache'[d]) <= Len(cache[d])
               /\ \A j \in DOMAIN cache'[d] : f[d][j] \in DOMAIN cache[d] /\ cache'[d][j] = cache[d][f[d][j]]
               /\ \A j, k \in DOMAIN cache'[d] : f[d][j] = f[d][k] => j = k
    BY <1>1, <2>7, <2>8
  <2>9. /\ Len(moved) <= Len(kept)
        /\ \A j \in DOMAIN moved :
             f[Dialect(c)][j] \in 1..Len(kept) /\ moved[j] = kept[f[Dialect(c)][j]]
        /\ \A j, k \in DOMAIN moved : f[Dialect(c)][j] = f[Dialect(c)][k] => j = k
    <3>1. \A j \in 1..Len(kept) : f[Dialect(c)][j] = Moved(Len(kept), i, j)
      BY <2>2, <2>3
    <3> DEFINE n == Len(kept)
               g == f[Dialect(c)]
    <3>2. /\ \A j \in 1..n : g[j] = Moved(n, i, j) /\ Moved(n, i, j) \in 1..n
          /\ \A j \in 1..n : moved[j] = kept[Moved(n, i, j)]
          /\ \A j, k \in 1..n : Moved(n, i, j) = Moved(n, i, k) => j = k
          /\ DOMAIN moved = 1..n /\ Len(moved) = n /\ n \in Nat
      BY <2>3, <2>4, <2>5, <2>6, <3>1
    <3> HIDE DEF f, kept, n, g
    <3>3. Len(moved) <= n
      BY <3>2
    <3>4. \A j \in DOMAIN moved : g[j] \in 1..n /\ moved[j] = kept[g[j]]
      BY <3>2
    <3>5. \A j, k \in DOMAIN moved : g[j] = g[k] => j = k
      BY <3>2, SMTT(20)
    <3>6. QED
      BY <3>3, <3>4, <3>5 DEF n, g
  <2>10. CameFrom(f)
    <3> HIDE DEF f
    <3> QED BY <1>1, <2>2, <2>7, <2>8, <2>9, SMTT(20) DEF CameFrom
  <2>11. QED
    BY <2>10
<1>4. CASE Evict(c)
  <2> DEFINE kept == cache[Dialect(c)]
             f == [d \in Dialects |-> [j \in Nat |-> IF d = Dialect(c) THEN j + 1 ELSE j]]
  <2>1. Dialect(c) \in Dialects /\ kept \in Seq(Nat) /\ kept # <<>>
    BY <1>4, Victim
  <2>2. /\ Tail(kept) \in Seq(Nat) /\ Len(Tail(kept)) = Len(kept) - 1
        /\ \A j \in 1..Len(Tail(kept)) : Tail(kept)[j] = kept[j + 1]
    BY <2>1, HeadTailProperties
  <2>3. DOMAIN Tail(kept) = 1..Len(Tail(kept))
    BY <2>2, LenProperties
  <2>4. cache'[Dialect(c)] = Tail(kept) /\ \A d \in Dialects \ {Dialect(c)} : cache'[d] = cache[d]
    BY <1>0, <1>4, <2>1 DEF Evict
  <2>5. ASSUME NEW d \in Dialects
        PROVE  /\ Len(cache'[d]) <= Len(cache[d])
               /\ \A j \in DOMAIN cache'[d] : f[d][j] \in DOMAIN cache[d] /\ cache'[d][j] = cache[d][f[d][j]]
               /\ \A j, k \in DOMAIN cache'[d] : f[d][j] = f[d][k] => j = k
    <3>1. CASE d = Dialect(c)
      <4> DEFINE n == Len(kept)
                 rest == Tail(kept)
                 g == f[d]
      <4>1. n \in Nat /\ n > 0 /\ DOMAIN kept = 1..n
        BY <1>1, <2>1, EmptySeq
      <4>2. /\ DOMAIN rest = 1..(n - 1) /\ Len(rest) = n - 1
            /\ \A j \in 1..(n - 1) : rest[j] = kept[j + 1]
        BY <2>2, <2>3
      <4>3. \A j \in 1..(n - 1) : g[j] = j + 1
        BY <3>1, <4>1
      <4>4. cache'[d] = rest /\ cache[d] = kept
        BY <2>4, <3>1
      <4> HIDE DEF f, kept, rest, n, g
      <4>5. Len(rest) <= n
        BY <4>1, <4>2
      <4>6. \A j \in DOMAIN rest : g[j] \in DOMAIN kept /\ rest[j] = kept[g[j]]
        BY <4>1, <4>2, <4>3
      <4>7. \A j, k \in DOMAIN rest : g[j] = g[k] => j = k
        BY <4>1, <4>2, <4>3
      <4>8. QED
        BY <4>4, <4>5, <4>6, <4>7 DEF n, g
    <3>2. CASE d # Dialect(c)
      BY <1>1, <2>4, <3>2
    <3>3. QED
      BY <3>1, <3>2
  <2>a. CameFrom(f)
    <3> HIDE DEF f
    <3> QED BY <2>5 DEF CameFrom
  <2>6. QED
    BY <2>a
<1>5. QED
  BY <1>2, <1>3, <1>4 DEF Start, Step, Lock, Build, BuildFails, Closed, Insert, RunNothing, Acquire,
     AcquireFails, Begin, BeginFails, RunInside, RunAlone, Rollback, Leave

\* An evicted pool is in no cache any more.
LEMMA VictimLeaves ==
  ASSUME EngineAssumption, Inv, NEW c \in Calls, Evict(c)
  PROVE  /\ \A d \in Dialects : \A j \in DOMAIN cache'[d] : cache'[d][j] # Head(cache[Dialect(c)])
         /\ \A e \in Calls : call[e].at \in {"evict", "close"} =>
              call[e].pool # Head(cache[Dialect(c)])
<1> DEFINE D == Dialect(c)
           kept == cache[D]
           victim == Head(kept)
<1>1. /\ D \in Dialects /\ kept \in Seq(Nat) /\ kept # <<>> /\ 1 \in DOMAIN kept
      /\ victim = kept[1] /\ cache \in [Dialects -> Seq(Nat)]
  BY Victim DEF Inv, Typed
<1>2. /\ Len(Tail(kept)) = Len(kept) - 1 /\ Len(kept) \in Nat /\ DOMAIN kept = 1..Len(kept)
      /\ DOMAIN Tail(kept) = 1..(Len(kept) - 1)
      /\ \A j \in 1..(Len(kept) - 1) : Tail(kept)[j] = kept[j + 1]
  BY <1>1, HeadTailProperties, LenProperties
<1>3. cache'[D] = Tail(kept) /\ \A d \in Dialects \ {D} : cache'[d] = cache[d]
  BY <1>1 DEF Evict
<1>4. /\ \A i, j \in DOMAIN kept : pools[kept[i]].url = pools[kept[j]].url => i = j
      /\ \A d \in Dialects \ {D} : \A j \in DOMAIN cache[d] : cache[d][j] # kept[1]
  BY <1>1 DEF Inv, CacheIsSound, CacheInv
<1>5. \A e \in Calls : call[e].at \in {"evict", "close"} => call[e].pool # kept[1]
  BY <1>1 DEF Inv, NewPools
<1> HIDE DEF D, kept, victim
<1>6. \A j \in 1..(Len(kept) - 1) : Tail(kept)[j] # kept[1]
  <2> SUFFICES ASSUME NEW j \in 1..(Len(kept) - 1), kept[j + 1] = kept[1] PROVE FALSE
    BY <1>2
  <2>1. j + 1 \in DOMAIN kept /\ j + 1 # 1
    BY <1>2
  <2>2. QED
    BY <1>1, <1>4, <2>1
<1>7. \A d \in Dialects : \A j \in DOMAIN cache'[d] : cache'[d][j] # kept[1]
  BY <1>2, <1>3, <1>4, <1>6
<1>8. QED
  BY <1>1, <1>5, <1>7 DEF D, kept, victim

\* The caches stay sound when nothing is put in one.
LEMMA CachesStaySound ==
  ASSUME EngineAssumption, Inv, NEW c \in Calls, Start(c) \/ Step(c), ~Insert(c)
  PROVE  CacheInv' /\ CacheIsSound'
<1>1. PICK f : CameFrom(f)
  BY CacheSteps
<1>2. DOMAIN pools \subseteq DOMAIN pools' /\ \A p \in DOMAIN pools : pools'[p].url = pools[p].url
  BY PoolsStep
<1>3. CacheInv /\ CacheIsSound
  BY DEF Inv
<1>4. CacheInv'
  BY <1>1, <1>2, <1>3 DEF CacheInv, CameFrom
<1>5. ASSUME NEW d \in Dialects, d = "server" PROVE Len(cache'[d]) <= MaxCachedPools
  <2>1. Len(cache[d]) \in Nat /\ Len(cache'[d]) \in Nat
    <3>1. Typed'
      BY NextTyped DEF Next
    <3>2. cache[d] \in Seq(Nat) /\ cache'[d] \in Seq(Nat)
      BY <3>1 DEF Inv, Typed
    <3>3. QED
      BY <3>2, LenProperties
  <2>2. Len(cache'[d]) <= Len(cache[d]) /\ Len(cache[d]) <= MaxCachedPools /\ MaxCachedPools \in Nat
    BY <1>1, <1>3, <1>5 DEF CameFrom, CacheIsSound, EngineAssumption
  <2>3. QED
    BY <2>1, <2>2
<1>6. ASSUME NEW d \in Dialects, NEW j \in DOMAIN cache'[d] PROVE pools'[cache'[d][j]].state = "open"
  <2>1. /\ cache'[d][j] \in DOMAIN pools /\ pools[cache'[d][j]].state = "open"
    BY <1>1, <1>3 DEF CameFrom, CacheInv, CacheIsSound
  <2>2. ~(Evict(c) /\ cache'[d][j] = Head(cache[Dialect(c)]))
    BY VictimLeaves
  <2>3. QED
    BY <2>1, <2>2, PoolsStep
<1>7. ASSUME NEW d \in Dialects, NEW i \in DOMAIN cache'[d], NEW j \in DOMAIN cache'[d],
             pools'[cache'[d][i]].url = pools'[cache'[d][j]].url
      PROVE  i = j
  <2>1. /\ f[d][i] \in DOMAIN cache[d] /\ cache'[d][i] = cache[d][f[d][i]]
        /\ f[d][j] \in DOMAIN cache[d] /\ cache'[d][j] = cache[d][f[d][j]]
        /\ f[d][i] = f[d][j] => i = j
    BY <1>1 DEF CameFrom
  <2>2. cache'[d][i] \in DOMAIN pools /\ cache'[d][j] \in DOMAIN pools
    BY <1>3, <2>1 DEF CacheInv
  <2>3. pools[cache'[d][i]].url = pools[cache'[d][j]].url
    BY <1>2, <1>7, <2>2
  <2>4. f[d][i] = f[d][j]
    BY <1>3, <2>1, <2>3 DEF CacheIsSound
  <2>5. QED
    BY <2>1, <2>4
<1>8. QED
  BY <1>4, <1>5, <1>6, <1>7 DEF CacheIsSound

\* What an insertion does: the pool of the call becomes the last of its cache.
LEMMA Inserted ==
  ASSUME EngineAssumption, Inv, NEW c \in Calls, Insert(c), NEW n, n = Len(cache[Dialect(c)])
  PROVE  /\ n \in Nat /\ Dialect(c) \in Dialects
         /\ DOMAIN cache[Dialect(c)] = 1..n /\ DOMAIN cache'[Dialect(c)] = 1..(n + 1)
         /\ Len(cache'[Dialect(c)]) = n + 1
         /\ Dialect(c) = "server" => n + 1 <= MaxCachedPools
         /\ \A j \in 1..n : cache'[Dialect(c)][j] = cache[Dialect(c)][j]
         /\ cache'[Dialect(c)][n + 1] = call[c].pool
         /\ \A d \in Dialects \ {Dialect(c)} : cache'[d] = cache[d]
         /\ pools' = pools
         /\ call[c].at = "evict" /\ mutex[Dialect(c)] = c
         /\ call[c].pool \in DOMAIN pools /\ pools[call[c].pool].url = Url(c)
<1>1. /\ call[c].at = "evict" /\ Dialect(c) \in Dialects /\ mutex[Dialect(c)] = c
      /\ call[c].pool \in DOMAIN pools /\ pools[call[c].pool].url = Url(c)
  BY DEF Insert, At, Inv, CallInv, OwnPool, Working
<1> DEFINE D == Dialect(c)
           kept == cache[D]
           p == call[c].pool
<1>2. /\ kept \in Seq(Nat) /\ Len(kept) \in Nat /\ DOMAIN kept = 1..Len(kept) /\ p \in Nat
      /\ cache \in [Dialects -> Seq(Nat)]
  BY <1>1, LenProperties DEF Inv, Typed, CallType
<1>3. cache' = [cache EXCEPT ![D] = Append(kept, p)] /\ pools' = pools /\ ~Full(D)
  BY DEF Insert
<1>4. D = "server" => Len(kept) + 1 <= MaxCachedPools
  BY <1>2, <1>3 DEF Full, EngineAssumption
<1> HIDE DEF D, kept, p
<1>5. /\ Append(kept, p) \in Seq(Nat) /\ Len(Append(kept, p)) = Len(kept) + 1
      /\ \A j \in 1..Len(kept) : Append(kept, p)[j] = kept[j]
      /\ Append(kept, p)[Len(kept) + 1] = p
  BY <1>2, AppendProperties
<1>6. DOMAIN Append(kept, p) = 1..(Len(kept) + 1)
  BY <1>5, LenProperties
<1>7. D \in Dialects
  BY <1>1 DEF D
<1>8. cache'[D] = Append(kept, p) /\ \A d \in Dialects \ {D} : cache'[d] = cache[d]
  BY <1>2, <1>3, <1>7
<1>9. QED
  BY <1>1, <1>2, <1>3, <1>4, <1>5, <1>6, <1>8 DEF D, kept, p

LEMMA InsertionIsSound ==
  ASSUME EngineAssumption, Inv, NEW c \in Calls, Insert(c)
  PROVE  CacheInv' /\ CacheIsSound'
<1> DEFINE D == Dialect(c)
           p == call[c].pool
           n == Len(cache[D])
<1>1. /\ n \in Nat /\ D \in Dialects
      /\ DOMAIN cache[D] = 1..n /\ DOMAIN cache'[D] = 1..(n + 1) /\ Len(cache'[D]) = n + 1
      /\ D = "server" => n + 1 <= MaxCachedPools
      /\ \A j \in 1..n : cache'[D][j] = cache[D][j]
      /\ cache'[D][n + 1] = p
      /\ \A d \in Dialects \ {D} : cache'[d] = cache[d]
      /\ pools' = pools /\ p \in DOMAIN pools
  BY Inserted
<1>2. /\ pools[p].state = "open"
      /\ \A d \in Dialects : \A i \in DOMAIN cache[d] : cache[d][i] # p
      /\ \A i \in DOMAIN cache[D] : pools[cache[D][i]].url # pools[p].url
  <2>1. call[c].at \in {"evict", "close"} /\ pools[p].url = Url(c)
    BY Inserted
  <2>2. /\ pools[p].state = "open"
        /\ \A d \in Dialects : \A i \in DOMAIN cache[d] : cache[d][i] # p
        /\ \A i \in DOMAIN cache[D] : pools[cache[D][i]].url # Url(c)
    BY <2>1 DEF Inv, NewPools
  <2>3. QED
    BY <2>1, <2>2
<1>3. CacheInv /\ CacheIsSound
  BY DEF Inv
<1> HIDE DEF D, p, n
<1>4. \A j \in 1..(n + 1) : j \in 1..n \/ j = n + 1
  BY <1>1
<1>5. ASSUME NEW d \in Dialects, NEW i \in DOMAIN cache'[d]
      PROVE  cache'[d][i] \in DOMAIN pools /\ pools[cache'[d][i]].state = "open"
  <2>1. CASE d = D
    BY <1>1, <1>2, <1>3, <1>4, <2>1 DEF CacheInv, CacheIsSound
  <2>2. CASE d # D
    BY <1>1, <1>3, <2>2 DEF CacheInv, CacheIsSound
  <2>3. QED
    BY <2>1, <2>2
<1>6. ASSUME NEW d \in Dialects, NEW e \in Dialects, NEW i \in DOMAIN cache'[d], NEW j \in DOMAIN cache'[e],
             d # e
      PROVE  cache'[d][i] # cache'[e][j]
  <2>1. CASE d = D
    <3>1. cache'[e] = cache[e]
      BY <1>1, <1>6, <2>1
    <3>2. QED
      BY <1>1, <1>2, <1>3, <1>4, <1>6, <2>1, <3>1 DEF CacheInv
  <2>2. CASE e = D
    <3>1. cache'[d] = cache[d]
      BY <1>1, <1>6, <2>2
    <3>2. QED
      BY <1>1, <1>2, <1>3, <1>4, <1>6, <2>2, <3>1 DEF CacheInv
  <2>3. CASE d # D /\ e # D
    BY <1>1, <1>3, <1>6, <2>3 DEF CacheInv
  <2>4. QED
    BY <2>1, <2>2, <2>3
<1>7. ASSUME NEW d \in Dialects, d = "server" PROVE Len(cache'[d]) <= MaxCachedPools
  <2>1. CASE d = D
    BY <1>1, <1>7, <2>1
  <2>2. CASE d # D
    BY <1>1, <1>3, <1>7, <2>2 DEF CacheIsSound
  <2>3. QED
    BY <2>1, <2>2
<1>8. ASSUME NEW d \in Dialects, NEW i \in DOMAIN cache'[d], NEW j \in DOMAIN cache'[d],
             pools[cache'[d][i]].url = pools[cache'[d][j]].url
      PROVE  i = j
  <2>1. CASE d # D
    BY <1>1, <1>3, <1>8, <2>1 DEF CacheIsSound
  <2>2. CASE d = D
    <3>1. CASE i \in 1..n /\ j \in 1..n
      BY <1>1, <1>3, <1>8, <2>2, <3>1 DEF CacheIsSound
    <3>2. CASE i = n + 1 /\ j \in 1..n
      BY <1>1, <1>2, <1>8, <2>2, <3>2
    <3>3. CASE i \in 1..n /\ j = n + 1
      BY <1>1, <1>2, <1>8, <2>2, <3>3
    <3>4. QED
      BY <1>1, <1>4, <2>2, <3>1, <3>2, <3>3
  <2>3. QED
    BY <2>1, <2>2
<1>9. CacheInv'
  BY <1>1, <1>5, <1>6 DEF CacheInv
<1>10. CacheIsSound'
  BY <1>1, <1>5, <1>7, <1>8 DEF CacheIsSound
<1>11. QED
  BY <1>9, <1>10

LEMMA NextCaches == EngineAssumption /\ Inv /\ [Next]_vars => CacheInv' /\ CacheIsSound'
<1> SUFFICES ASSUME EngineAssumption, Inv, [Next]_vars PROVE CacheInv' /\ CacheIsSound'
  OBVIOUS
<1>1. CASE UNCHANGED vars
  BY <1>1 DEF Inv, vars, CacheInv, CacheIsSound
<1>2. CASE Next
  BY <1>2, CachesStaySound, InsertionIsSound DEF Next
<1>3. QED
  BY <1>1, <1>2

-----------------------------------------------------------------------------
\* A pool being put in a cache stays out of all of them, and open, while nothing
\* else is put in one.
LEMMA NewPoolStays ==
  ASSUME EngineAssumption, Inv, NEW c \in Calls, Start(c) \/ Step(c), ~Insert(c),
         NEW e \in Calls, call[e].at \in {"evict", "close"}
  PROVE  /\ pools'[call[e].pool].state = "open"
         /\ \A d \in Dialects : \A i \in DOMAIN cache'[d] : cache'[d][i] # call[e].pool
         /\ \A i \in DOMAIN cache'[Dialect(e)] : pools'[cache'[Dialect(e)][i]].url # Url(e)
<1>1. PICK f : CameFrom(f)
  BY CacheSteps
<1>2. /\ call[e].pool \in DOMAIN pools /\ pools[call[e].pool].state = "open"
      /\ \A d \in Dialects : \A i \in DOMAIN cache[d] : cache[d][i] # call[e].pool
      /\ \A i \in DOMAIN cache[Dialect(e)] : pools[cache[Dialect(e)][i]].url # Url(e)
  BY DEF Inv, OwnPool, NewPools
<1>3. ~(Evict(c) /\ call[e].pool = Head(cache[Dialect(c)]))
  BY VictimLeaves
<1>4. Dialect(e) \in Dialects
  BY DEF Inv, CallInv, Working
<1>5. \A p \in DOMAIN pools : pools'[p].url = pools[p].url
  BY PoolsStep
<1>6. \A d \in Dialects : \A i \in DOMAIN cache[d] : cache[d][i] \in DOMAIN pools
  BY DEF Inv, CacheInv
<1>7. pools'[call[e].pool].state = "open"
  BY <1>2, <1>3, PoolsStep
<1>8. \A d \in Dialects : \A i \in DOMAIN cache'[d] : cache'[d][i] # call[e].pool
  BY <1>1, <1>2 DEF CameFrom
<1>9. ASSUME NEW i \in DOMAIN cache'[Dialect(e)] PROVE pools'[cache'[Dialect(e)][i]].url # Url(e)
  <2>1. f[Dialect(e)][i] \in DOMAIN cache[Dialect(e)] /\ cache'[Dialect(e)][i] = cache[Dialect(e)][f[Dialect(e)][i]]
    BY <1>1, <1>4 DEF CameFrom
  <2>2. QED
    BY <1>2, <1>4, <1>5, <1>6, <2>1
<1>10. QED
  BY <1>7, <1>8, <1>9

\* What NewPools says of one call.
IsNew(e) ==
  /\ pools[call[e].pool].state = "open"
  /\ \A d \in Dialects : \A i \in DOMAIN cache[d] : cache[d][i] # call[e].pool
  /\ \A i \in DOMAIN cache[Dialect(e)] : pools[cache[Dialect(e)][i]].url # Url(e)

LEMMA NextNewPools == EngineAssumption /\ Inv /\ [Next]_vars => NewPools'
<1> SUFFICES ASSUME EngineAssumption, Inv, [Next]_vars PROVE NewPools'
  OBVIOUS
<1>0. Typed /\ NewPools
  BY DEF Inv
<1>1. CASE UNCHANGED vars
  BY <1>0, <1>1 DEF vars, NewPools, Url, Dialect
<1>2. ASSUME NEW c \in Calls, Start(c) \/ Step(c) PROVE NewPools'
  <2>1. \A e \in Calls \ {c} : call'[e] = call[e]
    BY <1>0, <1>2, OthersStay
  <2>2. /\ call'[c].at \in {"evict", "close"} =>
             \/ Build(c) /\ call'[c].pool = Len(pools) + 1 /\ call'[c].ask = call[c].ask
             \/ /\ Evict(c) \/ Closed(c)
                /\ call[c].at \in {"evict", "close"} /\ call'[c].pool = call[c].pool
                /\ call'[c].ask = call[c].ask
    <3>1. CASE Start(c)
      BY <1>0, <3>1 DEF Start, Typed, CallType
    <3>2. CASE Build(c)
      BY <1>0, <3>2, StepOfCall, OthersStay DEF Step
    <3>3. CASE Evict(c) \/ Closed(c)
      <4>1. call[c].at \in {"evict", "close"}
        BY <3>3 DEF Evict, Closed, At
      <4>2. Keeps(c)
        BY <1>0, <3>3, StepOfCall
      <4>3. QED
        BY <3>3, <4>1, <4>2 DEF Keeps
    <3>4. CASE Step(c) /\ ~(Build(c) \/ Evict(c) \/ Closed(c))
      BY <1>0, <3>4, StepOfCall DEF Step
    <3>5. QED
      BY <1>2, <3>1, <3>2, <3>3, <3>4
  <2>3. ASSUME NEW e \in Calls, call'[e].at \in {"evict", "close"} PROVE IsNew(e)'
    <3>1. CASE Insert(c)
      <4>1. call'[c].at = "acquire"
        BY <1>0, <3>1, StepOfCall
      <4>2. e # c /\ call'[e] = call[e] /\ call[e].at \in {"evict", "close"}
        BY <2>1, <2>3, <4>1
      <4> DEFINE n == Len(cache[Dialect(c)])
      <4>3. /\ n \in Nat /\ Dialect(c) \in Dialects
            /\ DOMAIN cache[Dialect(c)] = 1..n /\ DOMAIN cache'[Dialect(c)] = 1..(n + 1)
            /\ \A j \in 1..n : cache'[Dialect(c)][j] = cache[Dialect(c)][j]
            /\ cache'[Dialect(c)][n + 1] = call[c].pool
            /\ \A d \in Dialects \ {Dialect(c)} : cache'[d] = cache[d]
            /\ pools' = pools /\ call[c].at = "evict" /\ mutex[Dialect(c)] = c
        BY <3>1, Inserted
      <4>4. Dialect(e) \in Dialects /\ mutex[Dialect(e)] = e
        BY <4>2 DEF Inv, CallInv, Working
      <4>5. Dialect(e) # Dialect(c)
        BY <4>2, <4>3, <4>4
      <4>6. IsNew(e) /\ call[e].pool # call[c].pool
        BY <1>0, <4>2, <4>3 DEF NewPools, IsNew
      <4> HIDE DEF n
      <4>7. ASSUME NEW d \in Dialects, NEW i \in DOMAIN cache'[d] PROVE cache'[d][i] # call[e].pool
        <5>1. CASE d = Dialect(c)
          <6>1. i \in 1..n \/ i = n + 1
            BY <4>3, <5>1
          <6>2. QED
            BY <4>3, <4>6, <5>1, <6>1 DEF IsNew
        <5>2. CASE d # Dialect(c)
          BY <4>3, <4>6, <5>2 DEF IsNew
        <5>3. QED
          BY <5>1, <5>2
      <4>8. cache'[Dialect(e)] = cache[Dialect(e)] /\ Dialect(e)' = Dialect(e) /\ Url(e)' = Url(e)
        BY <4>2, <4>3, <4>4, <4>5 DEF Dialect, Url
      <4>9. QED
        BY <4>2, <4>3, <4>6, <4>7, <4>8 DEF IsNew
    <3>2. CASE Build(c) /\ e = c
      <4>1. /\ call'[c].pool = Len(pools) + 1 /\ pools'[Len(pools) + 1] = NewPool(c)
            /\ Len(pools) + 1 \notin DOMAIN pools
            /\ \A p \in DOMAIN pools : pools'[p].url = pools[p].url
        BY <1>0, <1>2, <3>2, PoolsStep, StepOfCall
      <4>2. cache' = cache /\ Fitting(c) = {}
        BY <3>2 DEF Build
      <4>3. Dialect(c)' = Dialect(c) /\ Url(c)' = Url(c) /\ Dialect(c) \in Dialects
        <5>1. call'[c].ask = call[c].ask
          BY <1>0, <3>2, OthersStay DEF Step
        <5>2. Dialect(c) \in Dialects
          BY <3>2 DEF Inv, CallInv, Build, At, Working
        <5>3. QED
          BY <5>1, <5>2 DEF Dialect, Url
      <4>4. \A d \in Dialects : \A i \in DOMAIN cache[d] : cache[d][i] \in DOMAIN pools
        BY DEF Inv, CacheInv
      <4>5. pools'[call'[c].pool].state = "open"
        BY <4>1 DEF NewPool
      <4>6. \A d \in Dialects : \A i \in DOMAIN cache'[d] : cache'[d][i] # call'[c].pool
        BY <4>1, <4>2, <4>4
      <4>7. \A i \in DOMAIN cache[Dialect(c)] : pools[cache[Dialect(c)][i]].url # Url(c)
        BY <4>2 DEF Fitting
      <4>8. QED
        BY <3>2, <4>1, <4>2, <4>3, <4>4, <4>5, <4>6, <4>7 DEF IsNew
    <3>3. CASE ~Insert(c) /\ ~(Build(c) /\ e = c)
      <4>1. call[e].at \in {"evict", "close"} /\ call'[e].pool = call[e].pool /\ call'[e].ask = call[e].ask
        BY <2>1, <2>2, <2>3, <3>3
      <4>2. /\ pools'[call[e].pool].state = "open"
            /\ \A d \in Dialects : \A i \in DOMAIN cache'[d] : cache'[d][i] # call[e].pool
            /\ \A i \in DOMAIN cache'[Dialect(e)] : pools'[cache'[Dialect(e)][i]].url # Url(e)
        BY <1>2, <3>3, <4>1, NewPoolStays
      <4>3. Dialect(e)' = Dialect(e) /\ Url(e)' = Url(e)
        BY <4>1 DEF Dialect, Url
      <4>4. QED
        BY <4>1, <4>2, <4>3 DEF IsNew
    <3>4. QED
      BY <3>1, <3>2, <3>3
  <2>4. ASSUME NEW e \in Calls, NEW g \in Calls, e # g,
               call'[e].at \in {"evict", "close"}, call'[g].at \in {"evict", "close"}
        PROVE  call'[e].pool # call'[g].pool
    <3>1. \A x \in Calls : call[x].at \in {"evict", "close"} =>
            /\ call[x].pool \in DOMAIN pools
            /\ \A y \in Calls \ {x} : call[y].at \in {"evict", "close"} => call[y].pool # call[x].pool
      BY <1>0 DEF NewPools, Inv, OwnPool
    <3>2. Build(c) => Len(pools) + 1 \notin DOMAIN pools
      BY <1>2, PoolsStep
    <3>3. CASE e # c /\ g # c
      BY <2>1, <2>4, <3>1, <3>3
    <3>4. CASE e = c
      BY <2>1, <2>2, <2>4, <3>1, <3>2, <3>4
    <3>5. CASE g = c
      BY <2>1, <2>2, <2>4, <3>1, <3>2, <3>5
    <3>6. QED
      BY <3>3, <3>4, <3>5
  <2>5. QED
    BY <2>3, <2>4 DEF NewPools, IsNew
<1>3. QED
  BY <1>1, <1>2 DEF Next

-----------------------------------------------------------------------------
\* What a step does to the connections that are out of a pool.
LEMMA OutStep ==
  ASSUME EngineAssumption, Inv, NEW c \in Calls, Start(c) \/ Step(c), NEW p \in DOMAIN pools
  PROVE  \/ pools'[p].out = pools[p].out
         \/ pools'[p].out = pools[p].out \ {c}
         \/ pools'[p].out = pools[p].out \cup {c} /\ Cardinality(pools[p].out) < MaxConnections
<1>0. pools \in Seq(PoolType) /\ pools[p] \in PoolType
  BY PoolNumbers DEF Inv, Typed
<1>1. CASE UNCHANGED pools
  BY <1>1
<1>2. CASE Build(c)
  BY <1>0, <1>2, AppendProperties, PoolNumbers DEF Build
<1>3. ASSUME NEW q \in DOMAIN pools, NEW r \in PoolType, pools' = [pools EXCEPT ![q] = r]
      PROVE  pools'[q] = r /\ (p # q => pools'[p] = pools[p])
  BY <1>0, <1>3, PoolChanges
<1>4. \A q \in DOMAIN pools : pools[q] \in PoolType
  BY <1>0, PoolNumbers
<1>5. CASE Evict(c)
  <2> DEFINE q == Head(cache[Dialect(c)])
             r == [pools[q] EXCEPT !.state = "closing"]
  <2>1. q \in DOMAIN pools
    BY <1>5, Victim
  <2>2. r \in PoolType /\ r.out = pools[q].out
    BY <1>4, <2>1 DEF PoolType
  <2>3. pools' = [pools EXCEPT ![q] = r]
    BY <1>5 DEF Evict
  <2> HIDE DEF q, r
  <2>4. QED
    BY <1>3, <2>1, <2>2, <2>3
<1>6. CASE Closed(c)
  <2>1. PICK q \in DOMAIN pools : pools' = [pools EXCEPT ![q].state = "closed"]
    BY <1>6 DEF Closed
  <2> DEFINE r == [pools[q] EXCEPT !.state = "closed"]
  <2>2. r \in PoolType /\ r.out = pools[q].out
    BY <1>4, <2>1 DEF PoolType
  <2>3. pools' = [pools EXCEPT ![q] = r]
    BY <2>1
  <2> HIDE DEF r
  <2>4. QED
    BY <1>3, <2>1, <2>2, <2>3
<1>7. CASE Acquire(c)
  <2> DEFINE q == call[c].pool
             r == [pools[q] EXCEPT !.out = @ \cup {c}]
  <2>1. q \in DOMAIN pools /\ Cardinality(pools[q].out) < MaxConnections
    BY <1>7 DEF Inv, Acquire, At, OwnPool
  <2>2. r \in PoolType /\ r.out = pools[q].out \cup {c}
    BY <1>4, <2>1 DEF PoolType
  <2>3. pools' = [pools EXCEPT ![q] = r]
    BY <1>7 DEF Acquire
  <2> HIDE DEF q, r
  <2>4. QED
    BY <1>3, <2>1, <2>2, <2>3
<1>8. CASE BeginFails(c) \/ RunAlone(c) \/ Rollback(c)
  <2> DEFINE q == call[c].pool
             r == [pools[q] EXCEPT !.out = @ \ {c}, !.left = @ \/ FALSE]
  <2>1. q \in DOMAIN pools
    BY <1>8 DEF Inv, BeginFails, RunAlone, Rollback, At, OwnPool
  <2>2. r \in PoolType /\ r.out = pools[q].out \ {c}
    <3>1. pools[q] \in PoolType
      BY <1>4, <2>1
    <3>2. QED
      BY <3>1 DEF PoolType
  <2>3. pools' = [pools EXCEPT ![q] = r]
    BY <1>8 DEF BeginFails, RunAlone, Rollback, GiveBack
  <2> HIDE DEF q, r
  <2>4. QED
    BY <1>3, <2>1, <2>2, <2>3
<1>9. QED
  BY <1>1, <1>2, <1>5, <1>6, <1>7, <1>8
     DEF Step, Start, Lock, Hit, BuildFails, Insert, RunNothing, AcquireFails, Begin, RunInside

LEMMA NextOut == EngineAssumption /\ Inv /\ [Next]_vars => OutInv' /\ NoTransactionLeft'
<1> SUFFICES ASSUME EngineAssumption, Inv, [Next]_vars PROVE OutInv' /\ NoTransactionLeft'
  OBVIOUS
<1>1. OutInv /\ NoTransactionLeft /\ MaxConnections \in Nat
  BY DEF Inv, EngineAssumption
<1>2. CASE UNCHANGED vars
  BY <1>1, <1>2 DEF vars, OutInv, NoTransactionLeft
<1>3. ASSUME NEW c \in Calls, Start(c) \/ Step(c) PROVE OutInv' /\ NoTransactionLeft'
  <2>1. ASSUME NEW p \in DOMAIN pools
        PROVE  /\ IsFiniteSet(pools'[p].out) /\ Cardinality(pools'[p].out) <= MaxConnections
               /\ ~pools'[p].left
    <3> DEFINE out == pools[p].out
    <3>1. IsFiniteSet(out) /\ Cardinality(out) <= MaxConnections /\ Cardinality(out) \in Nat
      BY <1>1, FS_CardinalityType DEF OutInv
    <3>2. /\ IsFiniteSet(out \cup {c}) /\ IsFiniteSet(out \ {c})
          /\ Cardinality(out \cup {c}) \in {Cardinality(out), Cardinality(out) + 1}
          /\ Cardinality(out \ {c}) \in {Cardinality(out), Cardinality(out) - 1}
      BY <3>1, FS_AddElement, FS_RemoveElement
    <3>3. ~pools'[p].left
      BY <1>1, <1>3, PoolsStep DEF NoTransactionLeft
    <3>4. \/ pools'[p].out = out
          \/ pools'[p].out = out \ {c}
          \/ pools'[p].out = out \cup {c} /\ Cardinality(out) < MaxConnections
      BY <1>3, OutStep
    <3> HIDE DEF out
    <3>5. CASE pools'[p].out = out
      BY <3>1, <3>3, <3>5
    <3>6. CASE pools'[p].out = out \ {c}
      BY <1>1, <3>1, <3>2, <3>3, <3>6
    <3>7. CASE pools'[p].out = out \cup {c} /\ Cardinality(out) < MaxConnections
      BY <1>1, <3>1, <3>2, <3>3, <3>7
    <3>8. QED
      BY <3>4, <3>5, <3>6, <3>7
  <2>2. CASE Build(c)
    <3>1. /\ DOMAIN pools' = DOMAIN pools \cup {Len(pools) + 1}
          /\ pools'[Len(pools) + 1].out = {} /\ pools'[Len(pools) + 1].left = FALSE
      <4>1. NewPool(c).out = {} /\ NewPool(c).left = FALSE
        BY DEF NewPool
      <4>2. DOMAIN pools' = DOMAIN pools \cup {Len(pools) + 1} /\ pools'[Len(pools) + 1] = NewPool(c)
        BY <1>3, <2>2, PoolsStep
      <4>3. QED
        BY <4>1, <4>2
    <3>2. IsFiniteSet({}) /\ Cardinality({}) = 0
      BY FS_EmptySet
    <3>3. ASSUME NEW p \in DOMAIN pools'
          PROVE  /\ IsFiniteSet(pools'[p].out) /\ Cardinality(pools'[p].out) <= MaxConnections
                 /\ ~pools'[p].left
      <4>1. CASE p \in DOMAIN pools
        BY <2>1, <4>1
      <4>2. CASE p = Len(pools) + 1
        <5>1. pools'[p].out = {} /\ pools'[p].left = FALSE
          BY <3>1, <4>2
        <5>2. 0 <= MaxConnections
          BY <1>1
        <5>3. QED
          BY <3>2, <5>1, <5>2
      <4>3. QED
        BY <3>1, <4>1, <4>2
    <3>4. QED
      BY <3>3 DEF OutInv, NoTransactionLeft
  <2>3. CASE ~Build(c)
    <3>1. DOMAIN pools' = DOMAIN pools
      BY <1>3, <2>3, PoolsStep
    <3>2. QED
      BY <2>1, <3>1 DEF OutInv, NoTransactionLeft
  <2>4. QED
    BY <2>2, <2>3
<1>4. QED
  BY <1>2, <1>3 DEF Next

-----------------------------------------------------------------------------
LEMMA NextGivenPools == EngineAssumption /\ Inv /\ [Next]_vars => GivenPools'
<1> SUFFICES ASSUME EngineAssumption, Inv, [Next]_vars PROVE GivenPools'
  OBVIOUS
<1>1. GivenPools /\ Typed
  BY DEF Inv
<1>2. CASE UNCHANGED vars
  BY <1>1, <1>2 DEF vars, GivenPools
<1>3. ASSUME NEW c \in Calls, Start(c) \/ Step(c) PROVE GivenPools'
  <2>1. \A e \in Calls \ {c} : call'[e] = call[e]
    BY <1>1, <1>3, OthersStay
  <2>2. DOMAIN pools \subseteq DOMAIN pools'
    BY <1>3, PoolsStep
  <2>3. call \in [Calls -> CallType] /\ call[c] \in CallType
    BY <1>1 DEF Typed
  <2>4. call'[c].pool \in {0} \cup DOMAIN pools'
    <3>1. CASE Hit(c) \/ Build(c)
      <4>1. call'[c].at \in {"evict", "acquire"}
        BY <1>1, <3>1, StepOfCall
      <4>2. OwnPool'
        BY <1>3, NextOwnPool DEF Next
      <4>3. QED
        BY <4>1, <4>2 DEF OwnPool
    <3>2. CASE Lock(c) \/ Evict(c) \/ Closed(c) \/ Insert(c) \/ Acquire(c) \/ Begin(c) \/ RunInside(c)
      <4>1. call'[c].pool = call[c].pool
        BY <1>1, <3>2, StepOfCall DEF Keeps
      <4>2. QED
        BY <1>1, <2>2, <4>1 DEF GivenPools
    <3>3. ASSUME NEW ask, NEW at, NEW todo, NEW flag,
                 call' = [call EXCEPT ![c].ask = ask, ![c].at = at, ![c].todo = todo, ![c].orDescribe = flag]
          PROVE  call'[c].pool = call[c].pool
      BY <2>3, <3>3 DEF CallType
    <3>4. CASE Start(c)
      <4>1. PICK ask \in Asks :
              call' = [call EXCEPT ![c].ask = ask, ![c].at = IF Admitted(ask) THEN "lock" ELSE "refused",
                                   ![c].todo = Statements(ask).todo,
                                   ![c].orDescribe = Statements(ask).orDescribe]
        BY <3>4 DEF Start
      <4>2. call'[c].pool = call[c].pool
        BY <3>3, <4>1
      <4>3. QED
        BY <1>1, <2>2, <4>2 DEF GivenPools
    <3>5. CASE BuildFails(c) \/ AcquireFails(c) \/ BeginFails(c) \/ RunNothing(c)
      <4>1. call'[c].pool = call[c].pool
        BY <2>3, <3>5 DEF BuildFails, AcquireFails, BeginFails, RunNothing, CallType
      <4>2. QED
        BY <1>1, <2>2, <4>1 DEF GivenPools
    <3>6. ASSUME NEW result, Leave(c, result) PROVE call'[c].pool = call[c].pool
      BY <2>3, <3>6 DEF Leave, CallType
    <3>7. CASE RunAlone(c) \/ Rollback(c)
      BY <1>1, <2>2, <3>6, <3>7 DEF RunAlone, Rollback, GivenPools
    <3>8. QED
      BY <1>3, <3>1, <3>2, <3>4, <3>5, <3>7 DEF Step
  <2>5. QED
    BY <1>1, <2>1, <2>2, <2>4 DEF GivenPools
<1>4. QED
  BY <1>2, <1>3 DEF Next

LEMMA NextInv == EngineAssumption /\ Inv /\ [Next]_vars => Inv'
BY NextTyped, NextCallInv, NextOwnPool, NextNewPools, NextCaches, NextOut, NextGivenPools DEF Inv

\* What the invariant says of whom a statement runs as.
LEMMA InvRunsAsItsCaller == Inv => RunsAsItsCaller
<1> SUFFICES ASSUME Inv, NEW c \in Calls, At(c, "begin") \/ At(c, "run")
             PROVE  /\ pools[call[c].pool].url.host = call[c].ask.host
                    /\ pools[call[c].pool].url.account = Identity(call[c].ask)
  BY DEF RunsAsItsCaller, Identity, WithUserinfo
<1>1. pools[call[c].pool].url = ConnUrl(call[c].ask)
  BY DEF Inv, OwnPool, At, Url
<1>2. ConnUrl(call[c].ask).host = call[c].ask.host /\ ConnUrl(call[c].ask).account = Identity(call[c].ask)
  BY DEF ConnUrl
<1>3. QED
  BY <1>1, <1>2

LEMMA SpecInv == EngineAssumption => (Spec => []Inv)
<1> SUFFICES ASSUME EngineAssumption PROVE Spec => []Inv
  OBVIOUS
<1>1. Init => Inv
  BY InitInv
<1>2. Inv /\ [Next]_vars => Inv'
  BY NextInv
<1>3. QED
  BY <1>1, <1>2, PTL DEF Spec

\* Every statement runs on a connection with its own caller's credentials,
\* however many calls share the pools, and in whatever order (database.rs:118-121).
THEOREM RunsAsTheCaller == EngineAssumption => (Spec => []RunsAsItsCaller)
<1> SUFFICES ASSUME EngineAssumption PROVE Spec => []RunsAsItsCaller
  OBVIOUS
<1>1. QED
  BY InvRunsAsItsCaller, SpecInv, PTL

\* A cache has room, a pool per URL, and only pools that are open; and no
\* connection is given back in a transaction (database.rs:128-162, 344-346).
THEOREM PoolsStaySound == EngineAssumption => (Spec => [](CacheIsSound /\ NoTransactionLeft))
<1> SUFFICES ASSUME EngineAssumption PROVE Spec => [](CacheIsSound /\ NoTransactionLeft)
  OBVIOUS
<1>1. Inv => CacheIsSound /\ NoTransactionLeft
  BY DEF Inv
<1>2. QED
  BY <1>1, SpecInv, PTL

LEMMA InvTypeOK == Inv => TypeOK
<1> SUFFICES ASSUME Inv PROVE TypeOK
  OBVIOUS
<1>1. Typed /\ CacheInv /\ OutInv
  BY DEF Inv
<1>2. cache \in [Dialects -> Seq(DOMAIN pools)]
  <2>1. ASSUME NEW d \in Dialects PROVE cache[d] \in Seq(DOMAIN pools)
    <3>1. cache[d] \in Seq(Nat) /\ \A i \in DOMAIN cache[d] : cache[d][i] \in DOMAIN pools
      BY <1>1 DEF Typed, CacheInv
    <3>2. QED
      BY <3>1, ElementsDecide
  <2>2. QED
    BY <1>1, <2>1 DEF Typed
<1>3. ASSUME NEW c \in Calls
      PROVE  /\ call[c].ask \in Asked \cup {NoAsk} /\ call[c].at \in Places
             /\ call[c].todo \in Seq({"describe", "rows", "nothing"}) /\ call[c].orDescribe \in BOOLEAN
             /\ call[c].pool \in {0} \cup DOMAIN pools
             /\ call[c].inside \in BOOLEAN /\ call[c].result \in {"none", "some", "empty", "error"}
  BY <1>1, CallFields DEF Inv, Wants, Todos, Flags, Outcomes, GivenPools
<1>4. QED
  BY <1>1, <1>2, <1>3 DEF TypeOK, Typed, PoolType, OutInv

\* Types are kept, and no more connections are out of a pool than it has.
THEOREM TypeCorrect == EngineAssumption => (Spec => []TypeOK)
<1> SUFFICES ASSUME EngineAssumption PROVE Spec => []TypeOK
  OBVIOUS
<1>1. QED
  BY InvTypeOK, SpecInv, PTL
=============================================================================
