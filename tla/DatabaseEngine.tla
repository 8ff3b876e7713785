---------------------------- MODULE DatabaseEngine ----------------------------
(***************************************************************************)
(* The `database` engine: SQLite files, and PostgreSQL and MySQL servers,  *)
(* behind pools of connections that all calls share                        *)
(* (src/src/engine/database.rs).                                           *)
(*                                                                         *)
(* A call is a few statements, one after the other, and each of them asks  *)
(* the cache for a pool again.  The cache of a dialect is behind a mutex   *)
(* that is held while a pool is opened, and while an evicted one is        *)
(* closed, which waits for the connections that are out.  PostgreSQL and   *)
(* MySQL differ in syntax only, and are one dialect here, "server".        *)
(***************************************************************************)
EXTENDS Naturals, SequencesExt, FiniteSets

CONSTANTS
  Calls,            \* calls of the engine's methods, each on a thread
  Asks,             \* what they ask for: records (see Asked)
  MaxCachedPools,   \* MAX_CACHED_POOLS
  MaxConnections,   \* max_connections of every pool
  Free              \* the holder of a mutex nobody holds

VARIABLES
  pools,   \* the pools opened so far; a pool's number is its position
  cache,   \* for each dialect, the pools it keeps, least recently used first
  mutex,   \* for each dialect, the call that holds its cache's mutex
  call     \* what each call is doing

vars == <<pools, cache, mutex, call>>

Dialects == {"sqlite", "server"}

\* A call: the method; the source's URI, with the account it names; the
\* credentials of the request; whether user SQL is a read; whether there are
\* filters; and whether the request is already cancelled.
Asked ==
  [method: {"schema", "preview", "profile", "query", "query_capped", "scan", "list_tables"},
   scheme: Dialects \cup {"none", "other"}, host: STRING, account: STRING, table: BOOLEAN,
   credentials: STRING, reads: BOOLEAN, filtered: BOOLEAN, cap: Nat, cancelled: BOOLEAN]

NoCredentials == "none"
NoAsk == [scheme |-> "none"]

-----------------------------------------------------------------------------
(* What a call connects to, and what it runs there.                        *)

\* The credentials of the request replace the account of the URI wholesale; a
\* file has neither.
WithUserinfo(ask) ==
  IF ask.credentials = NoCredentials THEN ask.account ELSE ask.credentials

Identity(ask) == IF ask.scheme = "sqlite" THEN NoCredentials ELSE WithUserinfo(ask)

\* The URL as it was written, whoever asks.
UrlAsWritten(ask) == [host |-> ask.host, account |-> ask.account]

\* The connection URL: the key of the cache.
ConnUrl(ask) == [host |-> ask.host, account |-> Identity(ask)]

ParseDbUri(ask) == ask.scheme \in Dialects

NeedsTable(ask) == ask.method \notin {"query", "query_capped", "list_tables"}
RequireTable(ask) == NeedsTable(ask) => ask.table

EnsureReadOnly(ask) == ask.method \in {"query", "query_capped"} => ask.reads

\* The context is looked at before anything is done, and not again; a listing
\* does not look at it.
Admitted(ask) ==
  /\ ask.method # "list_tables" => ~ask.cancelled
  /\ EnsureReadOnly(ask) /\ ParseDbUri(ask) /\ RequireTable(ask)

\* The statements of each method.  "describe" is sent without a transaction;
\* `orDescribe` means that one follows when no row comes back.
Schema(ask) == [todo |-> <<"describe">>, orDescribe |-> FALSE]
Preview(ask) == [todo |-> <<"rows">>, orDescribe |-> TRUE]
Profile(ask) == [todo |-> <<"rows">>, orDescribe |-> FALSE]
Query(ask) == [todo |-> <<"rows">>, orDescribe |-> FALSE]
QueryCapped(ask) == [todo |-> IF ask.cap = 0 THEN <<"nothing">> ELSE <<"rows">>, orDescribe |-> FALSE]
Scan(ask) ==
  IF ask.filtered THEN [todo |-> <<"describe", "rows", "rows">>, orDescribe |-> FALSE]
  ELSE [todo |-> <<"rows", "rows">>, orDescribe |-> TRUE]
ListTables(ask) == [todo |-> <<"rows">>, orDescribe |-> FALSE]

Statements(ask) ==
  CASE ask.method = "schema"       -> Schema(ask)
    [] ask.method = "preview"      -> Preview(ask)
    [] ask.method = "profile"      -> Profile(ask)
    [] ask.method = "query"        -> Query(ask)
    [] ask.method = "query_capped" -> QueryCapped(ask)
    [] ask.method = "scan"         -> Scan(ask)
    [] ask.method = "list_tables"  -> ListTables(ask)

-----------------------------------------------------------------------------
Places == {"idle", "lock", "look", "evict", "close", "acquire", "begin", "run", "rollback",
           "done", "refused", "failed"}
Ended == {"done", "refused", "failed"}

TypeOK ==
  /\ pools \in Seq([url : {ConnUrl(ask) : ask \in Asks}, state : {"open", "closing", "closed"},
                    out : SUBSET Calls, left : BOOLEAN])
  /\ \A p \in DOMAIN pools : Cardinality(pools[p].out) <= MaxConnections
  /\ cache \in [Dialects -> Seq(DOMAIN pools)]
  /\ mutex \in [Dialects -> Calls \cup {Free}]
  /\ \A c \in Calls :
       /\ call[c].ask \in Asked \cup {NoAsk} /\ call[c].at \in Places
       /\ call[c].todo \in Seq({"describe", "rows", "nothing"}) /\ call[c].orDescribe \in BOOLEAN
       /\ call[c].pool \in {0} \cup DOMAIN pools
       /\ call[c].inside \in BOOLEAN /\ call[c].result \in {"none", "some", "empty", "error"}

Init ==
  /\ pools = <<>>
  /\ cache = [d \in Dialects |-> <<>>]
  /\ mutex = [d \in Dialects |-> Free]
  /\ call = [c \in Calls |-> [ask |-> NoAsk, at |-> "idle", todo |-> <<>>, orDescribe |-> FALSE,
                              pool |-> 0, inside |-> FALSE, result |-> "none"]]

Dialect(c) == call[c].ask.scheme
Url(c) == ConnUrl(call[c].ask)
At(c, place) == call[c].at = place
Statement(c) == Head(call[c].todo)
Unlock(c) == mutex' = [mutex EXCEPT ![Dialect(c)] = Free]

Start(c) ==
  /\ At(c, "idle")
  /\ \E ask \in Asks :
       call' = [call EXCEPT ![c].ask = ask, ![c].at = IF Admitted(ask) THEN "lock" ELSE "refused",
                            ![c].todo = Statements(ask).todo,
                            ![c].orDescribe = Statements(ask).orDescribe]
  /\ UNCHANGED <<pools, cache, mutex>>

-----------------------------------------------------------------------------
(* The cache of pools.                                                     *)

Lock(c) ==
  /\ At(c, "lock") /\ mutex[Dialect(c)] = Free
  /\ mutex' = [mutex EXCEPT ![Dialect(c)] = c]
  /\ call' = [call EXCEPT ![c].at = "look"]
  /\ UNCHANGED <<pools, cache>>

\* The cached pools that fit a call: those with its connection URL.
Fitting(c) == {i \in DOMAIN cache[Dialect(c)] : pools[cache[Dialect(c)][i]].url = Url(c)}

\* A cached pool is used, and becomes the one used last.
Hit(c) ==
  /\ At(c, "look")
  /\ \E i \in Fitting(c) :
       LET kept == cache[Dialect(c)]
       IN /\ cache' = [cache EXCEPT ![Dialect(c)] = Append(RemoveAt(kept, i), kept[i])]
          /\ call' = [call EXCEPT ![c].pool = kept[i], ![c].at = "acquire"]
  /\ Unlock(c)
  /\ UNCHANGED pools

\* A new one is opened before another is evicted for it.
Build(c) ==
  /\ At(c, "look") /\ Fitting(c) = {}
  /\ pools' = Append(pools, [url |-> Url(c), state |-> "open", out |-> {}, left |-> FALSE])
  /\ call' = [call EXCEPT ![c].pool = Len(pools) + 1, ![c].at = "evict"]
  /\ UNCHANGED <<cache, mutex>>

BuildFails(c) ==
  /\ At(c, "look") /\ Fitting(c) = {}
  /\ call' = [call EXCEPT ![c].at = "failed"]
  /\ Unlock(c)
  /\ UNCHANGED <<pools, cache>>

\* One pool more than the cache may have.
FullOneLater(d) == d = "server" /\ Len(cache[d]) > MaxCachedPools

\* The caches of servers are full at MAX_CACHED_POOLS; that of files never is.
Full(d) == d = "server" /\ Len(cache[d]) >= MaxCachedPools

\* The pool that was used least recently is evicted, and closed.
Evict(c) ==
  /\ At(c, "evict") /\ Full(Dialect(c))
  /\ LET victim == Head(cache[Dialect(c)])
     IN /\ cache' = [cache EXCEPT ![Dialect(c)] = Tail(@)]
        /\ pools' = [pools EXCEPT ![victim].state = "closing"]
  /\ call' = [call EXCEPT ![c].at = "close"]
  /\ UNCHANGED mutex

\* close waits until no call of the pool's has a connection out.
Drained(p) == pools[p].out = {}

Closed(c) ==
  /\ At(c, "close")
  /\ \E p \in DOMAIN pools :
       /\ pools[p].state = "closing" /\ Drained(p)
       /\ pools' = [pools EXCEPT ![p].state = "closed"]
  /\ call' = [call EXCEPT ![c].at = "evict"]
  /\ UNCHANGED <<cache, mutex>>

Insert(c) ==
  /\ At(c, "evict") /\ ~Full(Dialect(c))
  /\ cache' = [cache EXCEPT ![Dialect(c)] = Append(@, call[c].pool)]
  /\ call' = [call EXCEPT ![c].at = "acquire"]
  /\ Unlock(c)
  /\ UNCHANGED pools

-----------------------------------------------------------------------------
(* One statement.                                                          *)

\* Rows of a server are read in a transaction; descriptions, and files, which
\* are opened read-only, are not.
InTransaction(c) == Dialect(c) = "server" /\ Statement(c) = "rows"

\* A query capped at no rows is not run.
RunNothing(c) ==
  /\ At(c, "acquire") /\ Statement(c) = "nothing"
  /\ call' = [call EXCEPT ![c].at = "done", ![c].todo = <<>>]
  /\ UNCHANGED <<pools, cache, mutex>>

Acquire(c) ==
  /\ At(c, "acquire") /\ Statement(c) # "nothing"
  /\ pools[call[c].pool].state = "open"
  /\ Cardinality(pools[call[c].pool].out) < MaxConnections
  /\ pools' = [pools EXCEPT ![call[c].pool].out = @ \cup {c}]
  /\ call' = [call EXCEPT ![c].at = IF InTransaction(c) THEN "begin" ELSE "run"]
  /\ UNCHANGED <<cache, mutex>>

\* The pool is closed, every connection is out for too long, or a new one
\* cannot be opened.
AcquireFails(c) ==
  /\ At(c, "acquire") /\ Statement(c) # "nothing"
  /\ call' = [call EXCEPT ![c].at = "failed"]
  /\ UNCHANGED <<pools, cache, mutex>>

Begin(c) ==
  /\ At(c, "begin")
  /\ call' = [call EXCEPT ![c].at = "run", ![c].inside = TRUE]
  /\ UNCHANGED <<pools, cache, mutex>>

\* The connection goes back to its pool, in the transaction it is in.
GiveBack(c, inside) ==
  pools' = [pools EXCEPT ![call[c].pool].out = @ \ {c}, ![call[c].pool].left = @ \/ inside]

BeginFails(c) ==
  /\ At(c, "begin")
  /\ GiveBack(c, FALSE)
  /\ call' = [call EXCEPT ![c].at = "failed"]
  /\ UNCHANGED <<cache, mutex>>

\* What is left to do after a statement with this result.
Rest(c, result) ==
  IF result = "empty" /\ Len(call[c].todo) = 1 /\ call[c].orDescribe THEN <<"describe">>
  ELSE Tail(call[c].todo)

\* The statement is over, and the call goes on to the next one.
Leave(c, result) ==
  /\ call' = [call EXCEPT ![c].result = "none", ![c].inside = FALSE,
                          ![c].todo = IF result = "error" THEN <<>> ELSE Rest(c, result),
                          ![c].orDescribe = @ /\ Len(call[c].todo) > 1,
                          ![c].at = IF result = "error" THEN "failed"
                                    ELSE IF Rest(c, result) = <<>> THEN "done" ELSE "lock"]
  /\ UNCHANGED <<cache, mutex>>

\* A table without a description is an error, one without rows is not.
Results(c) == IF Statement(c) = "rows" THEN {"some", "empty", "error"} ELSE {"some", "error"}

RunInside(c) ==
  /\ At(c, "run") /\ call[c].inside
  /\ \E result \in Results(c) :
       call' = [call EXCEPT ![c].result = result, ![c].at = "rollback"]
  /\ UNCHANGED <<pools, cache, mutex>>

RunAlone(c) ==
  /\ At(c, "run") /\ ~call[c].inside
  /\ GiveBack(c, FALSE)
  /\ \E result \in Results(c) : Leave(c, result)

\* The transaction is rolled back whatever the result.
Rollback(c) ==
  /\ At(c, "rollback")
  /\ GiveBack(c, FALSE)
  /\ Leave(c, call[c].result)

-----------------------------------------------------------------------------
Step(c) ==
  \/ Lock(c) \/ Hit(c) \/ Build(c) \/ BuildFails(c) \/ Evict(c) \/ Closed(c) \/ Insert(c)
  \/ RunNothing(c) \/ Acquire(c) \/ AcquireFails(c) \/ Begin(c) \/ BeginFails(c)
  \/ RunInside(c) \/ RunAlone(c) \/ Rollback(c)

Next == \E c \in Calls : Start(c) \/ Step(c)

Spec == Init /\ [][Next]_vars
FairSpec == Spec /\ \A c \in Calls : WF_vars(Step(c))

-----------------------------------------------------------------------------
\* A statement runs on a connection that is authenticated with the credentials
\* of its own request, or else of its own URI, whatever was cached for the same
\* server before (database.rs:118-121, 636-657).
RunsAsItsCaller ==
  \A c \in Calls : At(c, "begin") \/ At(c, "run") =>
    /\ pools[call[c].pool].url.host = call[c].ask.host
    /\ pools[call[c].pool].url.account =
         IF call[c].ask.scheme = "sqlite" THEN NoCredentials
         ELSE IF call[c].ask.credentials # NoCredentials THEN call[c].ask.credentials
         ELSE call[c].ask.account

\* A cache has one pool per connection URL, no more than it may have, and none
\* that is closed: whoever finds one there can use it, though another call may
\* evict it a moment later (database.rs:128-131, 144-162).
CacheIsSound ==
  \A d \in Dialects :
    /\ d = "server" => Len(cache[d]) <= MaxCachedPools
    /\ \A i \in DOMAIN cache[d] : pools[cache[d][i]].state = "open"
    /\ \A i, j \in DOMAIN cache[d] : pools[cache[d][i]].url = pools[cache[d][j]].url => i = j

\* No connection goes back to its pool in a transaction, which the next call
\* would find itself in, not even after an error (database.rs:344-346, 374-375).
NoTransactionLeft == \A p \in DOMAIN pools : ~pools[p].left
=============================================================================
