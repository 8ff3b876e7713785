----------------------------- MODULE QueryServer -----------------------------
(***************************************************************************)
(* The server and its database engine: requests over databases are calls   *)
(* of the engine, next to those of programs that embed it and bring        *)
(* credentials of their own (src/src/api.rs, src/src/engine/database.rs).  *)
(***************************************************************************)
EXTENDS HttpServer

CONSTANTS
  Embedders,       \* programs that call the database engine directly
  EmbeddedAsks,    \* what they ask of it
  MaxCachedPools, MaxConnections, Free

VARIABLES pools, cache, mutex, call

databaseVars == <<pools, cache, mutex, call>>
vars == <<httpVars, databaseVars>>

\* The server's context carries no credentials: the account is the URI's.
AskOf(w) ==
  [method |-> Handled(w).ask, scheme |-> "server", host |-> "h", account |-> "uri", table |-> TRUE,
   credentials |-> "none", reads |-> TRUE, filtered |-> ~w.plain, cap |-> Limit(w),
   cancelled |-> FALSE]

Database == INSTANCE DatabaseEngine WITH
  Calls <- Requests \cup Embedders,
  Asks <- EmbeddedAsks \cup {AskOf(w) : w \in {v \in Wishes : OnDatabase(v)}}

\* What is asked is of its type, and a cache has room for a pool (MAX_CACHED_POOLS
\* is 8).
ASSUME ServerAssumption ==
  /\ QueryCap \in Nat \ {0} /\ DefaultCap \in Nat /\ MaxRows \in Nat /\ Channel \in Nat
  /\ Wishes \subseteq Wished /\ \A p \in DOMAIN Entry : Entry[p].in \in BOOLEAN
  /\ EmbeddedAsks \subseteq Database!Asked
  /\ \A w \in Wishes : OnDatabase(w) => AskOf(w) \in Database!Asked
  /\ MaxCachedPools \in Nat \ {0} /\ MaxConnections \in Nat
  /\ Free \notin Requests \cup Embedders

TypeOK == HttpTypeOK /\ Database!TypeOK
Init == HttpInit /\ Database!Init

Http(action) == action /\ UNCHANGED databaseVars

\* A request at work on a database is a call of the engine, and answered as that ends.
Ask(r) ==
  /\ Busy(r, "work") /\ OnDatabase(req[r].wish)
  /\ Database!Start(r) /\ call'[r].ask = AskOf(req[r].wish)
  /\ UNCHANGED httpVars

AnswerFromDatabase(r) ==
  /\ Busy(r, "work") /\ OnDatabase(req[r].wish)
  /\ \/ call[r].at = "done" /\ (AnswerStream(r) \/ AnswerWhole(r))
     \/ call[r].at \in {"refused", "failed"} /\ AnswerError(r)
     \/ call[r].at \in {"done", "refused", "failed"} /\ (AnswerUnkept(r) \/ AnswerLost(r))

AnswerFromFiles(r) == Busy(r, "work") /\ ~OnDatabase(req[r].wish) /\ Answer(r)

Embed(e) == server.database /\ Database!Start(e) /\ call'[e].ask \in EmbeddedAsks /\ UNCHANGED httpVars

Serve(r) == Http(Handler(r) \/ AnswerFromFiles(r) \/ AnswerFromDatabase(r) \/ Writer(r))
Execute(c) == Database!Step(c) /\ UNCHANGED httpVars

Next ==
  \/ \E r \in Requests :
       \/ Http(Arrive(r)) \/ Serve(r) \/ Ask(r)
       \/ Http(EngineFails(r)) \/ Http(Client(r)) \/ Http(HangUp(r))
  \/ \E e \in Embedders : Embed(e)
  \/ \E c \in Requests \cup Embedders : Execute(c)
  \/ Http(World)

Fairness ==
  /\ \A r \in Requests : WF_vars(Serve(r)) /\ WF_vars(Ask(r)) /\ WF_vars(Http(Client(r)))
  /\ \A c \in Requests \cup Embedders : WF_vars(Execute(c))

Spec == Init /\ [][Next]_vars /\ Fairness

-----------------------------------------------------------------------------
RunsAsItsCaller == Database!RunsAsItsCaller
PoolsAreSound == Database!CacheIsSound /\ Database!NoTransactionLeft

\* Every request that arrived is answered and its thread let go, though a call that
\* evicts a pool keeps the others waiting while it closes that pool, if the
\* database answers and the client of a stream reads it or hangs up: then the
\* thread stops pulling rows for it (api.rs:1067-1074, database.rs:150-158).
EveryRequestEnds == \A r \in Requests : Busy(r, "gate") ~> req[r].at \in {"answered", "over"}
=============================================================================
