-------------------------- MODULE QueryServer_proofs --------------------------
(***************************************************************************)
(* Proofs about the server, for any requests, pools, tables and writers:   *)
(* whom its statements run as, which files it opens, and which runs it     *)
(* records.  Those about pools are the database engine's, whose steps the  *)
(* server's are.                                                           *)
(***************************************************************************)
EXTENDS QueryServer, SequenceTheorems, TLAPS

-----------------------------------------------------------------------------
(* The pools of the database engine.                                       *)

Proved == INSTANCE DatabaseEngine_proofs WITH
  Calls <- Requests \cup Embedders,
  Asks <- EmbeddedAsks \cup {AskOf(w) : w \in {v \in Wishes : OnDatabase(v)}}

LEMMA EngineIsFit == Proved!EngineAssumption
BY ServerAssumption DEF Proved!EngineAssumption, Proved!Asked, Database!Asked, Proved!Dialects, Database!Dialects

\* The engine that the proofs are about and the one of the server are one: their
\* definitions are the same, name by name.
LEMMA SameWants ==
  ASSUME NEW ask
  PROVE  /\ Proved!Statements(ask) = Database!Statements(ask)
         /\ Proved!ConnUrl(ask) = Database!ConnUrl(ask)
         /\ Proved!Admitted(ask) <=> Database!Admitted(ask)
<1>1. Proved!Statements(ask) = Database!Statements(ask)
  BY DEF Proved!Statements, Database!Statements, Proved!Schema, Database!Schema,
     Proved!Preview, Database!Preview, Proved!Profile, Database!Profile, Proved!Query, Database!Query,
     Proved!QueryCapped, Database!QueryCapped, Proved!Scan, Database!Scan,
     Proved!ListTables, Database!ListTables
<1>2. Proved!ConnUrl(ask) = Database!ConnUrl(ask)
  BY DEF Proved!ConnUrl, Database!ConnUrl, Proved!Identity, Database!Identity,
     Proved!WithUserinfo, Database!WithUserinfo, Proved!NoCredentials, Database!NoCredentials
<1>3. Proved!Admitted(ask) <=> Database!Admitted(ask)
  BY DEF Proved!Admitted, Database!Admitted, Proved!EnsureReadOnly, Database!EnsureReadOnly,
     Proved!ParseDbUri, Database!ParseDbUri, Proved!RequireTable, Database!RequireTable,
     Proved!NeedsTable, Database!NeedsTable, Proved!Dialects, Database!Dialects
<1>4. QED
  BY <1>1, <1>2, <1>3

LEMMA SameState ==
  ASSUME NEW c
  PROVE  /\ Proved!Url(c) = Database!Url(c) /\ Proved!Dialect(c) = Database!Dialect(c)
         /\ Proved!Statement(c) = Database!Statement(c)
         /\ \A place : Proved!At(c, place) <=> Database!At(c, place)
         /\ \A d : Proved!Full(d) <=> Database!Full(d)
         /\ Proved!Fitting(c) = Database!Fitting(c)
         /\ Proved!Unlock(c) <=> Database!Unlock(c)
<1>1. Proved!Url(c) = Database!Url(c) /\ Proved!Dialect(c) = Database!Dialect(c)
  BY SameWants DEF Proved!Url, Database!Url, Proved!Dialect, Database!Dialect
<1>2. Proved!Fitting(c) = Database!Fitting(c)
  BY <1>1 DEF Proved!Fitting, Database!Fitting
<1>3. /\ Proved!Statement(c) = Database!Statement(c)
      /\ \A place : Proved!At(c, place) <=> Database!At(c, place)
      /\ \A d : Proved!Full(d) <=> Database!Full(d)
  BY DEF Proved!Statement, Database!Statement, Proved!At, Database!At, Proved!Full, Database!Full
<1>4. Proved!Unlock(c) <=> Database!Unlock(c)
  BY <1>1 DEF Proved!Unlock, Database!Unlock
<1>5. QED
  BY <1>1, <1>2, <1>3, <1>4

LEMMA SameCacheSteps ==
  ASSUME NEW c
  PROVE  /\ Database!Start(c) => Proved!Start(c)
         /\ Database!Lock(c) => Proved!Lock(c)
         /\ Database!Hit(c) => Proved!Hit(c)
         /\ Database!Build(c) => Proved!Build(c)
         /\ Database!BuildFails(c) => Proved!BuildFails(c)
         /\ Database!Evict(c) => Proved!Evict(c)
         /\ Database!Closed(c) => Proved!Closed(c)
         /\ Database!Insert(c) => Proved!Insert(c)
<1>1. Database!Start(c) => Proved!Start(c)
  BY SameWants, SameState DEF Proved!Start, Database!Start
<1>2. Database!Lock(c) => Proved!Lock(c)
  BY SameState DEF Proved!Lock, Database!Lock
<1>3. Database!Hit(c) => Proved!Hit(c)
  BY SameState DEF Proved!Hit, Database!Hit, Proved!RemoveAt, Database!RemoveAt
<1>4. Database!Build(c) => Proved!Build(c)
  BY SameState DEF Proved!Build, Database!Build
<1>5. Database!BuildFails(c) => Proved!BuildFails(c)
  BY SameState DEF Proved!BuildFails, Database!BuildFails
<1>6. Database!Evict(c) => Proved!Evict(c)
  BY SameState DEF Proved!Evict, Database!Evict
<1>7. Database!Closed(c) => Proved!Closed(c)
  BY SameState DEF Proved!Closed, Database!Closed, Proved!Drained, Database!Drained
<1>8. Database!Insert(c) => Proved!Insert(c)
  BY SameState DEF Proved!Insert, Database!Insert
<1>9. QED
  BY <1>1, <1>2, <1>3, <1>4, <1>5, <1>6, <1>7, <1>8

LEMMA SameStatementSteps ==
  ASSUME NEW c
  PROVE  /\ Database!RunNothing(c) => Proved!RunNothing(c)
         /\ Database!Acquire(c) => Proved!Acquire(c)
         /\ Database!AcquireFails(c) => Proved!AcquireFails(c)
         /\ Database!Begin(c) => Proved!Begin(c)
         /\ Database!BeginFails(c) => Proved!BeginFails(c)
         /\ Database!RunInside(c) => Proved!RunInside(c)
         /\ Database!RunAlone(c) => Proved!RunAlone(c)
         /\ Database!Rollback(c) => Proved!Rollback(c)
<1>1. Database!RunNothing(c) => Proved!RunNothing(c)
  BY SameState DEF Proved!RunNothing, Database!RunNothing
<1>2. Database!Acquire(c) => Proved!Acquire(c)
  <2>1. Proved!InTransaction(c) <=> Database!InTransaction(c)
    BY SameState DEF Proved!InTransaction, Database!InTransaction
  <2>2. QED
    BY <2>1, SameState DEF Proved!Acquire, Database!Acquire, Proved!Cardinality, Database!Cardinality
<1>3. Database!AcquireFails(c) => Proved!AcquireFails(c)
  BY SameState DEF Proved!AcquireFails, Database!AcquireFails
<1>4. Database!Begin(c) => Proved!Begin(c)
  BY SameState DEF Proved!Begin, Database!Begin
<1>5. \A inside : Proved!GiveBack(c, inside) <=> Database!GiveBack(c, inside)
  BY DEF Proved!GiveBack, Database!GiveBack
<1>6. Database!BeginFails(c) => Proved!BeginFails(c)
  BY SameState, <1>5 DEF Proved!BeginFails, Database!BeginFails
<1>7. Proved!Results(c) = Database!Results(c)
  BY SameState DEF Proved!Results, Database!Results
<1>8. \A result : Database!Leave(c, result) => Proved!Leave(c, result)
  BY DEF Proved!Leave, Database!Leave, Proved!Rest, Database!Rest
<1>9. Database!RunInside(c) => Proved!RunInside(c)
  BY SameState, <1>7 DEF Proved!RunInside, Database!RunInside
<1>10. Database!RunAlone(c) => Proved!RunAlone(c)
  BY SameState, <1>5, <1>7, <1>8 DEF Proved!RunAlone, Database!RunAlone
<1>11. Database!Rollback(c) => Proved!Rollback(c)
  BY SameState, <1>5, <1>8 DEF Proved!Rollback, Database!Rollback
<1>12. QED
  BY <1>1, <1>2, <1>3, <1>4, <1>6, <1>9, <1>10, <1>11

\* Every step of the server is one of the database engine's, or leaves it alone.
LEMMA ServerStepsAreTheEngines == [Next]_vars => [Proved!Next]_(Proved!vars)
<1> SUFFICES ASSUME [Next]_vars PROVE [Proved!Next]_(Proved!vars)
  OBVIOUS
<1>1. CASE UNCHANGED vars
  BY <1>1 DEF vars, databaseVars, Proved!vars
<1>2. ASSUME NEW c \in Requests \cup Embedders, Database!Start(c) \/ Database!Step(c)
      PROVE  Proved!Next
  <2>1. Proved!Start(c) \/ Proved!Step(c)
    BY <1>2, SameCacheSteps, SameStatementSteps DEF Proved!Step, Database!Step
  <2>2. QED
    BY <2>1 DEF Proved!Next
<1>3. CASE Next
  BY <1>2, <1>3 DEF Next, Http, Serve, Ask, Embed, Execute, databaseVars, Proved!vars
<1>4. QED
  BY <1>1, <1>3

\* The database engine's invariant is one of the server's.
LEMMA EngineInv == Spec => []Proved!Inv
<1>1. Init => Proved!Inv
  <2>1. Database!Init => Proved!Init
    BY DEF Database!Init, Proved!Init, Database!Dialects, Proved!Dialects, Database!NoAsk, Proved!NoAsk
  <2>2. QED
    BY <2>1, EngineIsFit, Proved!InitInv DEF Init
<1>2. Proved!Inv /\ [Next]_vars => Proved!Inv'
  BY ServerStepsAreTheEngines, EngineIsFit, Proved!NextInv
<1>3. QED
  BY <1>1, <1>2, PTL DEF Spec

\* A statement runs on a connection with the credentials of its own request, while
\* the server and programs that embed its engine share the pools (database.rs:118-121).
THEOREM ServerRunsAsItsCaller == Spec => []RunsAsItsCaller
<1>1. Proved!Inv => RunsAsItsCaller
  BY Proved!InvRunsAsItsCaller, SameState
     DEF RunsAsItsCaller, Database!RunsAsItsCaller, Proved!RunsAsItsCaller,
         Database!NoCredentials, Proved!NoCredentials
<1>2. QED
  BY <1>1, EngineInv, PTL

\* A cache has room, a pool per URL, and only pools that are open; and no connection
\* is given back in a transaction (database.rs:128-162, 344-346).
THEOREM ServerPoolsAreSound == Spec => []PoolsAreSound
<1>1. Proved!Inv => PoolsAreSound
  BY DEF Proved!Inv, PoolsAreSound, Proved!CacheIsSound, Database!CacheIsSound,
         Proved!NoTransactionLeft, Database!NoTransactionLeft, Proved!Dialects, Database!Dialects
<1>2. QED
  BY <1>1, EngineInv, PTL

-----------------------------------------------------------------------------
(* The requests: their types, and the inductive invariant.                 *)

Wanted == Wished \cup {NoWish}
Paths == Seq(DOMAIN Entry)
Sides == SUBSET {"in", "out"}
Sent == Seq(Chunks)
Bodies == {"none", "open", "whole", "cut", "gone"}
Statuses == {0, 200, 400, 401, 403, 404, 408, 413, 499, 500, 501, 502}
Flags == BOOLEAN
Totals == 0 .. MaxRows
ReqType ==
  [wish : Wanted, at : Places, todo : Paths, stale : Flags, opened : Sides, total : Totals,
   begun : Flags, written : Nat, channel : Sent, body : Bodies, got : Nat, marked : Flags,
   status : Statuses, capped : Flags]

HttpTyped ==
  /\ server \in Servers
  /\ members \in [DOMAIN Entry -> Sides]
  /\ workspace \in [there : Flags, history : SUBSET Requests, unkept : SUBSET Requests]
  /\ req \in [Requests -> ReqType]

HttpNext ==
  \/ \E r \in Requests :
       \/ Arrive(r) \/ Handler(r) \/ AnswerStream(r) \/ AnswerWhole(r) \/ AnswerError(r) \/ AnswerUnkept(r) \/ AnswerLost(r)
       \/ Writer(r) \/ EngineFails(r) \/ Client(r) \/ HangUp(r)
  \/ World

Asking == {"idle", "gate", "admit", "work"}
Streaming == {"writing", "failing", "over"}
Tables == {"directory", "delta", "iceberg"}
Capped(q) == LowerOf(q.total, Limit(q.wish))
StreamOf(q) == q.wish.endpoint = "query" /\ q.wish.stream

\* Nothing has been answered, or nothing but a status.
Quiet(q) ==
  /\ q.body = "none" /\ q.channel = <<>> /\ q.opened = {} /\ q.total = 0
  /\ ~q.begun /\ q.written = 0 /\ q.got = 0 /\ ~q.marked

\* An answer that is not a stream.
Whole(q) ==
  /\ q.body = "whole" /\ q.channel = <<>> /\ ~StreamOf(q) /\ q.written = 0 /\ q.got = Capped(q)
  /\ (q.wish.endpoint = "query" /\ q.got < q.total => q.capped)

\* The rows in a channel: all chunks but the schema, which is the first, and what
\* ends the stream, which is the last.
Starts(sent) == sent # <<>> /\ sent[1] = "schema"
Ends(sent) == sent # <<>> /\ sent[Len(sent)] \in {"end", "error"}
Leading(sent) == IF Starts(sent) THEN 1 ELSE 0
Trailing(sent) == IF Ends(sent) THEN 1 ELSE 0
RowsIn(sent) == Len(sent) - Leading(sent) - Trailing(sent)

\* A stream that is read: what was written is what the client has and what is in the
\* channel.  The end marker follows the last row, and after it nothing is written.
Open(q) ==
  /\ \A i \in DOMAIN q.channel :
       /\ q.channel[i] = "schema" => i = 1
       /\ q.channel[i] \in {"end", "error"} => i = Len(q.channel) /\ q.at = "over"
  /\ q.written = q.got + RowsIn(q.channel)
  /\ ~q.begun => q.at = "writing" /\ q.channel = <<>> /\ q.written = 0
  /\ q.marked => q.at = "over" /\ q.channel = <<>> /\ q.written = Capped(q)
  /\ q.at = "over" /\ ~q.marked =>
       Ends(q.channel) /\ (q.channel[Len(q.channel)] = "end" => q.written = Capped(q))

Sound(q) ==
  /\ q.at # "idle" => q.wish \in Wishes
  /\ Len(q.channel) <= Channel
  /\ q.at \in Asking => Quiet(q)
  /\ q.at = "answered" => Quiet(q) \/ Whole(q)
  /\ q.at \in Streaming =>
       /\ StreamOf(q) /\ q.got <= q.written /\ q.written <= Capped(q)
       /\ q.body \in {"open", "whole", "cut", "gone"}
       /\ q.body = "open" => Open(q)
       /\ q.body = "whole" => q.at = "over" /\ q.marked /\ q.got = Capped(q)

\* A run is in the history as soon as it is answered, and if it reached the engine
\* and the store has not failed to take it.
Recorded(q, in, unkept) ==
  /\ q.at \in Asking => ~in /\ ~unkept
  /\ q.wish.endpoint = "run" /\ q.at = "answered" =>
       /\ ~unkept => (in <=> q.status \in {200, 400, 500})
       /\ unkept => q.status # 200

\* A path that was checked has no file outside the root, or was added to since.
Checked(q) ==
  server.root =>
    /\ q.at \in {"gate", "admit", "work"} /\ q.wish.endpoint # "list" =>
         \A p \in ToSet(q.wish.paths) \ ToSet(q.todo) : "out" \in members[p] => q.stale
    /\ q.at \in {"admit", "work"} => q.todo = <<>>
    /\ "out" \in q.opened => q.stale

\* Only a table or a directory gains files.
Outsiders == \A p \in DOMAIN Entry : Entry[p].kind \notin Tables /\ "out" \in members[p] => ~Entry[p].in

HttpInv ==
  /\ HttpTyped /\ Outsiders
  /\ \A r \in Requests : /\ Sound(req[r]) /\ Checked(req[r])
                         /\ Recorded(req[r], r \in workspace.history, r \in workspace.unkept)

LEMMA HttpSteps == [Next]_vars => [HttpNext]_httpVars
<1> SUFFICES ASSUME [Next]_vars PROVE [HttpNext]_httpVars
  OBVIOUS
<1>1. CASE UNCHANGED vars
  BY <1>1 DEF vars
<1>2. CASE \E r \in Requests : Http(Arrive(r)) \/ Serve(r) \/ Http(EngineFails(r)) \/ Http(Client(r)) \/ Http(HangUp(r))
  BY <1>2 DEF Http, Serve, HttpNext, AnswerFromFiles, AnswerFromDatabase, Answer
<1>3. CASE (\E r \in Requests : Ask(r)) \/ (\E e \in Embedders : Embed(e)) \/ \E c \in Requests \cup Embedders : Execute(c)
  BY <1>3 DEF Ask, Embed, Execute
<1>4. CASE Http(World)
  BY <1>4 DEF Http, HttpNext
<1>5. QED
  BY <1>1, <1>2, <1>3, <1>4 DEF Next

LEMMA ReqConstants ==
  /\ {"idle", "gate", "admit", "work", "writing", "failing", "answered", "over"} \subseteq Places
  /\ Chunks = {"schema", "rows", "end", "error"}
  /\ Bodies = {"none", "open", "whole", "cut", "gone"}
  /\ {0, 200} \subseteq Statuses
  /\ TRUE \in Flags /\ FALSE \in Flags
  /\ {} \in Sides /\ NoWish \in Wanted /\ Wishes \subseteq Wanted
  /\ <<>> \in Paths /\ <<>> \in Sent /\ 0 \in Totals
BY ServerAssumption, EmptySeq DEF Places, Chunks, Bodies, Statuses, Flags, Sides, Wanted, Paths, Sent, Totals

LEMMA StatusOf ==
  /\ Status("forbidden") = 403 /\ Status("not_found") = 404 /\ Status("unauthorized") = 401
  /\ Status("other") = 400 /\ Status("unsupported_operation") = 501 /\ Status("query") = 400
  /\ Status("io") = 500 /\ Status("too_large") = 413
  /\ Status("remote") = 502
BY DEF Status

LEMMA WishFields ==
  ASSUME NEW w \in Wishes
  PROVE  /\ w.paths \in Paths /\ w.limited \in BOOLEAN /\ w.limit \in Nat /\ w.limit \in 0 .. MaxRows + 1
         /\ w.endpoint \in {"page", "engines", "schema", "info", "preview", "profile", "query", "rows",
               "stats", "export", "list", "run", "workspaces"}
         /\ w.stream \in BOOLEAN
<1>1. w \in Wished
  BY ServerAssumption
<1>2. QED
  BY <1>1, ServerAssumption DEF Wished, Paths

LEMMA LimitIsNat ==
  ASSUME NEW w \in Wishes
  PROVE  /\ Limit(w) \in Nat
         /\ w.endpoint \in {"query", "run"} => Limit(w) <= QueryCap
<1>1. AskedRows(w) \in Nat
  BY WishFields, ServerAssumption DEF AskedRows
<1>2. /\ AtMostCap(w) \in Nat
      /\ WithinCap(w) \in Nat /\ WithinCap(w) <= QueryCap
  BY <1>1, ServerAssumption DEF AtMostCap, WithinCap, Clamp, LowerOf
<1>3. /\ w.endpoint = "page" => Limit(w) = 0
      /\ w.endpoint = "engines" => Limit(w) = 0
      /\ w.endpoint = "schema" => Limit(w) = 0
      /\ w.endpoint = "info" => Limit(w) = 0
      /\ w.endpoint = "preview" => Limit(w) = AtMostCap(w)
      /\ w.endpoint = "profile" => Limit(w) = AtMostCap(w)
      /\ w.endpoint = "stats" => Limit(w) = DefaultCap
      /\ w.endpoint = "rows" => Limit(w) = WithinCap(w)
      /\ w.endpoint = "export" => Limit(w) = QueryCap
      /\ w.endpoint = "query" => Limit(w) = WithinCap(w)
      /\ w.endpoint = "list" => Limit(w) = 0
      /\ w.endpoint = "run" => Limit(w) = WithinCap(w)
      /\ w.endpoint = "workspaces" => Limit(w) = 0
  BY DEF Limit, Handled, Page, Engines, Schema, Info, Preview, Profile, Stats, Rows, Export, Query, List, Run, Workspaces
<1>4. QED
  BY <1>2, <1>3, WishFields, ServerAssumption


\* The requests, after a field of one has changed.
LEMMA OneField ==
  ASSUME NEW f \in [Requests -> ReqType], NEW r \in Requests
  PROVE  /\ \A wish \in Wanted : [f EXCEPT ![r].wish = wish] \in [Requests -> ReqType]
         /\ \A at \in Places : [f EXCEPT ![r].at = at] \in [Requests -> ReqType]
         /\ \A status \in Statuses : [f EXCEPT ![r].status = status] \in [Requests -> ReqType]
         /\ \A todo \in Paths : [f EXCEPT ![r].todo = todo] \in [Requests -> ReqType]
         /\ \A channel \in Sent : [f EXCEPT ![r].channel = channel] \in [Requests -> ReqType]
         /\ \A body \in Bodies : [f EXCEPT ![r].body = body] \in [Requests -> ReqType]
         /\ \A n \in Nat : [f EXCEPT ![r].written = n] \in [Requests -> ReqType]
         /\ \A n \in Nat : [f EXCEPT ![r].got = n] \in [Requests -> ReqType]
         /\ \A n \in Totals : [f EXCEPT ![r].total = n] \in [Requests -> ReqType]
         /\ \A flag \in Flags : [f EXCEPT ![r].begun = flag] \in [Requests -> ReqType]
         /\ \A flag \in Flags : [f EXCEPT ![r].marked = flag] \in [Requests -> ReqType]
         /\ \A flag \in Flags : [f EXCEPT ![r].capped = flag] \in [Requests -> ReqType]
         /\ \A opened \in Sides : [f EXCEPT ![r].opened = opened] \in [Requests -> ReqType]
<1>1. ASSUME NEW v \in Wanted PROVE [f EXCEPT ![r].wish = v] \in [Requests -> ReqType]
  BY DEF ReqType
<1>2. ASSUME NEW v \in Places PROVE [f EXCEPT ![r].at = v] \in [Requests -> ReqType]
  BY DEF ReqType
<1>3. ASSUME NEW v \in Statuses PROVE [f EXCEPT ![r].status = v] \in [Requests -> ReqType]
  BY DEF ReqType
<1>4. ASSUME NEW v \in Paths PROVE [f EXCEPT ![r].todo = v] \in [Requests -> ReqType]
  BY DEF ReqType
<1>5. ASSUME NEW v \in Sent PROVE [f EXCEPT ![r].channel = v] \in [Requests -> ReqType]
  BY DEF ReqType
<1>6. ASSUME NEW v \in Bodies PROVE [f EXCEPT ![r].body = v] \in [Requests -> ReqType]
  BY DEF ReqType
<1>7. ASSUME NEW v \in Nat PROVE [f EXCEPT ![r].written = v] \in [Requests -> ReqType]
  BY DEF ReqType
<1>8. ASSUME NEW v \in Nat PROVE [f EXCEPT ![r].got = v] \in [Requests -> ReqType]
  BY DEF ReqType
<1>9. ASSUME NEW v \in Totals PROVE [f EXCEPT ![r].total = v] \in [Requests -> ReqType]
  BY DEF ReqType
<1>10. ASSUME NEW v \in Flags PROVE [f EXCEPT ![r].begun = v] \in [Requests -> ReqType]
  BY DEF ReqType
<1>11. ASSUME NEW v \in Flags PROVE [f EXCEPT ![r].marked = v] \in [Requests -> ReqType]
  BY DEF ReqType
<1>12. ASSUME NEW v \in Flags PROVE [f EXCEPT ![r].capped = v] \in [Requests -> ReqType]
  BY DEF ReqType
<1>13. ASSUME NEW v \in Sides PROVE [f EXCEPT ![r].opened = v] \in [Requests -> ReqType]
  BY DEF ReqType
<1>14. QED
  BY <1>1, <1>2, <1>3, <1>4, <1>5, <1>6, <1>7, <1>8, <1>9, <1>10, <1>11, <1>12, <1>13, Zenon

\* And after several have, one by one.
LEMMA Arrivals ==
  ASSUME NEW f \in [Requests -> ReqType], NEW r \in Requests, NEW wish \in Wanted, NEW at \in Places
  PROVE  /\ \A todo \in Paths :
              [f EXCEPT ![r].wish = wish, ![r].todo = todo, ![r].at = at] \in [Requests -> ReqType]
         /\ \A status \in Statuses :
              [f EXCEPT ![r].wish = wish, ![r].at = at, ![r].status = status] \in [Requests -> ReqType]
<1> DEFINE g == [f EXCEPT ![r].wish = wish]
<1>1. g \in [Requests -> ReqType]
  BY OneField, Zenon
<1>2. ASSUME NEW todo \in Paths
      PROVE  [f EXCEPT ![r].wish = wish, ![r].todo = todo, ![r].at = at] \in [Requests -> ReqType]
  <2> DEFINE h == [g EXCEPT ![r].todo = todo]
  <2>1. [f EXCEPT ![r].wish = wish, ![r].todo = todo, ![r].at = at] = [h EXCEPT ![r].at = at]
    OBVIOUS
  <2> HIDE DEF g
  <2>2. h \in [Requests -> ReqType]
    BY <1>1, OneField, Zenon
  <2> HIDE DEF h
  <2>3. [h EXCEPT ![r].at = at] \in [Requests -> ReqType]
    BY <2>2, OneField, Zenon
  <2>4. QED
    BY <2>1, <2>3
<1>3. ASSUME NEW status \in Statuses
      PROVE  [f EXCEPT ![r].wish = wish, ![r].at = at, ![r].status = status] \in [Requests -> ReqType]
  <2> DEFINE h == [g EXCEPT ![r].at = at]
  <2>1. [f EXCEPT ![r].wish = wish, ![r].at = at, ![r].status = status] = [h EXCEPT ![r].status = status]
    OBVIOUS
  <2> HIDE DEF g
  <2>2. h \in [Requests -> ReqType]
    BY <1>1, OneField, Zenon
  <2> HIDE DEF h
  <2>3. [h EXCEPT ![r].status = status] \in [Requests -> ReqType]
    BY <2>2, OneField, Zenon
  <2>4. QED
    BY <2>1, <2>3
<1>4. QED
  BY <1>2, <1>3

WithAnswer(f, r, opened, total, got, capped) ==
  [f EXCEPT ![r].at = "answered", ![r].status = 200, ![r].opened = opened, ![r].total = total,
            ![r].got = got, ![r].body = "whole", ![r].capped = capped]
WithStream(f, r, opened, total) ==
  [f EXCEPT ![r].at = "writing", ![r].status = 200, ![r].opened = opened, ![r].total = total,
            ![r].body = "open", ![r].written = 0]

LEMMA Answers ==
  ASSUME NEW f \in [Requests -> ReqType], NEW r \in Requests, NEW opened \in Sides, NEW total \in Totals
  PROVE  /\ \A got \in Nat, capped \in Flags : WithAnswer(f, r, opened, total, got, capped) \in [Requests -> ReqType]
         /\ WithStream(f, r, opened, total) \in [Requests -> ReqType]
<1>1. ASSUME NEW at \in Places
      PROVE  [f EXCEPT ![r].at = at, ![r].status = 200, ![r].opened = opened, ![r].total = total]
               \in [Requests -> ReqType]
  <2> DEFINE g1 == [f EXCEPT ![r].at = at]
             g2 == [g1 EXCEPT ![r].status = 200]
             g3 == [g2 EXCEPT ![r].opened = opened]
             g4 == [g3 EXCEPT ![r].total = total]
  <2>1. [f EXCEPT ![r].at = at, ![r].status = 200, ![r].opened = opened, ![r].total = total] = g4
    OBVIOUS
  <2> HIDE DEF g1, g2, g3, g4
  <2>2. g1 \in [Requests -> ReqType]
    BY OneField, Zenon DEF g1
  <2>3. 200 \in Statuses
    BY ReqConstants
  <2>4. g2 \in [Requests -> ReqType]
    BY <2>2, <2>3 DEF g2, ReqType
  <2>5. g3 \in [Requests -> ReqType]
    BY <2>4, OneField, Zenon DEF g3
  <2>6. g4 \in [Requests -> ReqType]
    BY <2>5, OneField, Zenon DEF g4
  <2>7. QED
    BY <2>1, <2>6
<1>2. /\ "answered" \in Places /\ "writing" \in Places /\ "whole" \in Bodies /\ "open" \in Bodies
      /\ 0 \in Nat
  BY ReqConstants
<1>3. ASSUME NEW got \in Nat, NEW capped \in Flags
      PROVE  WithAnswer(f, r, opened, total, got, capped) \in [Requests -> ReqType]
  <2> DEFINE g1 == [f EXCEPT ![r].at = "answered", ![r].status = 200, ![r].opened = opened, ![r].total = total]
             g2 == [g1 EXCEPT ![r].got = got]
             g3 == [g2 EXCEPT ![r].body = "whole"]
             g4 == [g3 EXCEPT ![r].capped = capped]
  <2>1. WithAnswer(f, r, opened, total, got, capped) = g4
    BY DEF WithAnswer
  <2> HIDE DEF g1, g2, g3, g4
  <2>2. g1 \in [Requests -> ReqType]
    BY <1>1, <1>2, Zenon DEF g1
  <2>3. g2 \in [Requests -> ReqType]
    BY <2>2, OneField, Zenon DEF g2
  <2>4. g3 \in [Requests -> ReqType]
    BY <1>2, <2>3, OneField, Zenon DEF g3
  <2>5. g4 \in [Requests -> ReqType]
    BY <2>4, OneField, Zenon DEF g4
  <2>6. QED
    BY <2>1, <2>5
<1>4. WithStream(f, r, opened, total) \in [Requests -> ReqType]
  <2> DEFINE g1 == [f EXCEPT ![r].at = "writing", ![r].status = 200, ![r].opened = opened, ![r].total = total]
             g2 == [g1 EXCEPT ![r].body = "open"]
             g3 == [g2 EXCEPT ![r].written = 0]
  <2>1. WithStream(f, r, opened, total) = g3
    BY DEF WithStream
  <2> HIDE DEF g1, g2, g3
  <2>2. g1 \in [Requests -> ReqType]
    BY <1>1, <1>2, Zenon DEF g1
  <2>3. g2 \in [Requests -> ReqType]
    BY <1>2, <2>2, OneField, Zenon DEF g2
  <2>4. g3 \in [Requests -> ReqType]
    BY <1>2, <2>3, OneField, Zenon DEF g3
  <2>5. QED
    BY <2>1, <2>4
<1>5. QED
  BY <1>3, <1>4

-----------------------------------------------------------------------------
\* One request changes: what is to be shown of it.
\* What a request may do to the history: add itself, as kept or as not.
KeptFor(r) ==
  \E kept, unkept \in SUBSET {r} :
    workspace' = [workspace EXCEPT !.history = @ \cup kept, !.unkept = @ \cup unkept]

LEMMA KeptForOne == ASSUME HttpTyped, NEW r \in Requests, Record(r) PROVE KeptFor(r)
<1>1. workspace \in [there : Flags, history : SUBSET Requests, unkept : SUBSET Requests]
  BY DEF HttpTyped
<1>2. [workspace EXCEPT !.history = @ \cup {r}] = [workspace EXCEPT !.history = @ \cup {r}, !.unkept = @ \cup {}]
  BY <1>1
<1>3. {} \in SUBSET {r} /\ {r} \in SUBSET {r}
  OBVIOUS
<1>4. QED
  BY <1>2, <1>3, Zenon DEF KeptFor, Record

LEMMA OneRequest ==
  ASSUME HttpInv, NEW r \in Requests, req' \in [Requests -> ReqType],
         \A e \in Requests \ {r} : req'[e] = req[e],
         server' = server, members' = members,
         workspace' = workspace \/ KeptFor(r),
         Sound(req'[r]), Checked(req'[r]), Recorded(req'[r], r \in workspace'.history, r \in workspace'.unkept)
  PROVE  HttpInv'
<1>1. HttpTyped
  BY DEF HttpInv
<1>3. /\ workspace' \in [there : Flags, history : SUBSET Requests, unkept : SUBSET Requests]
      /\ \A e \in Requests \ {r} : /\ e \in workspace'.history <=> e \in workspace.history
                                   /\ e \in workspace'.unkept <=> e \in workspace.unkept
  <2>1. workspace \in [there : Flags, history : SUBSET Requests, unkept : SUBSET Requests]
    BY <1>1 DEF HttpTyped
  <2>2. CASE KeptFor(r)
    <3>1. PICK kept \in SUBSET {r}, unkept \in SUBSET {r} :
            workspace' = [workspace EXCEPT !.history = @ \cup kept, !.unkept = @ \cup unkept]
      BY <2>2 DEF KeptFor
    <3>2. QED
      BY <2>1, <3>1
  <2>3. QED
    BY <2>1, <2>2
<1>4. HttpTyped' /\ Outsiders'
  BY <1>1, <1>3 DEF HttpInv, HttpTyped, Outsiders
<1>5. \A e \in Requests : Sound(req[e])'
  BY DEF HttpInv, Sound, Quiet, Whole, Open, Capped, StreamOf
<1>6. \A e \in Requests : Checked(req[e])'
  BY DEF HttpInv, Checked
<1>7. \A e \in Requests : Recorded(req[e], e \in workspace.history, e \in workspace.unkept)'
  BY <1>3 DEF HttpInv, Recorded
<1>8. QED
  BY <1>4, <1>5, <1>6, <1>7 DEF HttpInv

LEMMA OneOf ==
  ASSUME HttpInv, NEW r \in Requests
  PROVE  /\ req \in [Requests -> ReqType] /\ req[r] \in ReqType
         /\ Sound(req[r]) /\ Checked(req[r]) /\ Recorded(req[r], r \in workspace.history, r \in workspace.unkept)
BY DEF HttpInv, HttpTyped

\* The request is answered with a status and nothing else.
Codes == {200, 400, 401, 403, 404, 413, 500, 501, 502}
Carried == {200, 400, 500}
LEMMA NoBodyInv ==
  ASSUME HttpInv, NEW r \in Requests, NEW status \in Codes, req[r].at \in Asking \ {"idle"},
         req' = [req EXCEPT ![r].at = "answered", ![r].status = status],
         server' = server, members' = members,
         workspace' = workspace \/ KeptFor(r),
         req[r].wish.endpoint = "run" =>
           /\ r \notin workspace'.unkept => (r \in workspace'.history <=> status \in Carried)
           /\ r \in workspace'.unkept => status # 200
  PROVE  HttpInv'
<1>0. req \in [Requests -> ReqType]
  BY DEF HttpInv, HttpTyped
<1>1. req[r] \in ReqType /\ Sound(req[r]) /\ Checked(req[r])
  BY <1>0 DEF HttpInv
<1>2. req' \in [Requests -> ReqType]
  <2>1. "answered" \in Places /\ status \in Statuses
    BY DEF Places, Statuses, Codes
  <2> DEFINE g == [req EXCEPT ![r].at = "answered"]
  <2>2. req' = [g EXCEPT ![r].status = status]
    OBVIOUS
  <2> HIDE DEF g
  <2>3. g \in [Requests -> ReqType]
    BY <1>0, <2>1, OneField, Zenon DEF g
  <2>4. [g EXCEPT ![r].status = status] \in [Requests -> ReqType]
    BY <2>1, <2>3, OneField, Zenon
  <2>5. QED
    BY <2>2, <2>4
<1>4. /\ req'[r].at = "answered" /\ req'[r].status = status /\ req'[r].wish = req[r].wish /\ req'[r].channel = req[r].channel
      /\ req'[r].body = req[r].body /\ req'[r].opened = req[r].opened /\ req'[r].total = req[r].total
      /\ req'[r].begun = req[r].begun /\ req'[r].written = req[r].written /\ req'[r].got = req[r].got
      /\ req'[r].marked = req[r].marked /\ req'[r].stale = req[r].stale
      /\ \A e \in Requests \ {r} : req'[e] = req[e]
  BY <1>0 DEF ReqType
<1>5. Sound(req'[r])
  <2>1. req[r].wish \in Wishes /\ Quiet(req[r]) /\ Len(req[r].channel) <= Channel
    BY <1>1 DEF Sound, Asking
  <2>2. Quiet(req'[r])
    BY <1>0, <2>1 DEF Quiet, ReqType
  <2>3. QED
    BY <1>4, <2>1, <2>2 DEF Sound, Streaming, Asking
<1>6. Checked(req'[r])
  BY <1>1, <1>4 DEF Checked
<1>7. Recorded(req'[r], r \in workspace'.history, r \in workspace'.unkept)
  BY <1>4 DEF Recorded, Asking, Codes, Carried
<1>8. QED
  BY <1>2, <1>4, <1>5, <1>6, <1>7, OneRequest

LEMMA ArriveInv == ASSUME HttpInv, NEW r \in Requests, Arrive(r) PROVE HttpInv'
<1>0. /\ req \in [Requests -> ReqType] /\ Sound(req[r]) /\ Checked(req[r])
      /\ Recorded(req[r], r \in workspace.history, r \in workspace.unkept) /\ req[r].at = "idle"
  BY OneOf DEF Arrive, Busy
<1>1. PICK w \in Wishes :
        req' = IF Authorized(w)
               THEN [req EXCEPT ![r].wish = w, ![r].todo = w.paths, ![r].at = "gate"]
               ELSE [req EXCEPT ![r].wish = w, ![r].at = "answered", ![r].status = Status("unauthorized")]
  BY DEF Arrive
<1>2. Quiet(req[r]) /\ r \notin workspace.history \cup workspace.unkept /\ Len(req[r].channel) <= Channel
  BY <1>0 DEF Sound, Recorded, Asking
<1>3. w \in Wanted /\ w.paths \in Paths
  BY WishFields, ReqConstants
<1>4. server' = server /\ members' = members /\ workspace' = workspace
  BY DEF Arrive
<1>5. CASE Authorized(w)
  <2>1. req' = [req EXCEPT ![r].wish = w, ![r].todo = w.paths, ![r].at = "gate"]
    BY <1>1, <1>5
  <2>2. req' \in [Requests -> ReqType]
    <3>1. "gate" \in Places
      BY ReqConstants
    <3>2. [req EXCEPT ![r].wish = w, ![r].todo = w.paths, ![r].at = "gate"] \in [Requests -> ReqType]
      BY <1>0, <1>3, <3>1, Arrivals, Zenon
    <3>3. QED
      BY <2>1, <3>2
  <2>3. /\ req'[r].at = "gate" /\ req'[r].wish = w /\ req'[r].todo = w.paths /\ Quiet(req'[r])
        /\ req'[r].opened = req[r].opened /\ req'[r].stale = req[r].stale
        /\ Len(req'[r].channel) <= Channel
        /\ \A e \in Requests \ {r} : req'[e] = req[e]
    BY <1>0, <1>2, <2>1 DEF ReqType, Quiet
  <2>4. Sound(req'[r])
    BY <2>3 DEF Sound, Asking, Streaming
  <2>5. Checked(req'[r])
    BY <1>0, <2>3 DEF Checked
  <2>6. Recorded(req'[r], r \in workspace'.history, r \in workspace'.unkept)
    BY <1>2, <1>4, <2>3 DEF Recorded
  <2>7. QED
    BY <1>4, <2>2, <2>3, <2>4, <2>5, <2>6, OneRequest
<1>6. CASE ~Authorized(w)
  <2>1. req' = [req EXCEPT ![r].wish = w, ![r].at = "answered", ![r].status = 401]
    BY <1>1, <1>6, StatusOf
  <2>2. req' \in [Requests -> ReqType]
    <3>1. "answered" \in Places /\ Status("unauthorized") \in Statuses
      BY ReqConstants, StatusOf DEF Statuses
    <3>2. [req EXCEPT ![r].wish = w, ![r].at = "answered", ![r].status = Status("unauthorized")]
            \in [Requests -> ReqType]
      BY <1>0, <1>3, <3>1, Arrivals, Zenon
    <3>3. QED
      BY <1>1, <1>6, <3>2
  <2>3. /\ req'[r].at = "answered" /\ req'[r].wish = w /\ Quiet(req'[r]) /\ req'[r].status = 401
        /\ req'[r].opened = req[r].opened /\ req'[r].stale = req[r].stale
        /\ Len(req'[r].channel) <= Channel
        /\ \A e \in Requests \ {r} : req'[e] = req[e]
    BY <1>0, <1>2, <2>1 DEF ReqType, Quiet
  <2>4. Sound(req'[r])
    BY <2>3 DEF Sound, Asking, Streaming
  <2>5. Checked(req'[r])
    BY <1>0, <2>3 DEF Checked
  <2>6. Recorded(req'[r], r \in workspace'.history, r \in workspace'.unkept)
    BY <1>2, <1>4, <2>3 DEF Recorded, Asking
  <2>7. QED
    BY <1>4, <2>2, <2>3, <2>4, <2>5, <2>6, OneRequest
<1>7. QED
  BY <1>5, <1>6

\* Nothing but the files of a table or a directory can lie elsewhere than its path says.
LEMMA CheckedPath ==
  ASSUME HttpInv, server.root, NEW p \in DOMAIN Entry, EntryConfined(p), MembersConfined(p)
  PROVE  "out" \notin members[p]
BY DEF HttpInv, Outsiders, EntryConfined, MembersConfined, Tables

LEMMA ToSetOfTail ==
  ASSUME NEW S, NEW s \in Seq(S), s # <<>>
  PROVE  Head(s) \in S /\ Tail(s) \in Seq(S) /\ ToSet(s) = {Head(s)} \cup ToSet(Tail(s))
<1>1. /\ Head(s) \in S /\ Tail(s) \in Seq(S) /\ Len(Tail(s)) = Len(s) - 1 /\ Head(s) = s[1]
      /\ \A i \in 1 .. Len(Tail(s)) : Tail(s)[i] = s[i + 1]
  BY HeadTailProperties
<1>2. Len(s) \in Nat \ {0} /\ DOMAIN s = 1 .. Len(s) /\ DOMAIN Tail(s) = 1 .. (Len(s) - 1)
  BY <1>1, LenProperties, EmptySeq
<1>3. ASSUME NEW i \in DOMAIN s PROVE s[i] \in {Head(s)} \cup ToSet(Tail(s))
  <2>1. CASE i = 1
    BY <1>1, <2>1
  <2>2. CASE i # 1
    <3>1. i - 1 \in DOMAIN Tail(s) /\ Tail(s)[i - 1] = s[i]
      BY <1>1, <1>2, <2>2
    <3>2. QED
      BY <3>1 DEF ToSet
  <2>3. QED
    BY <2>1, <2>2
<1>4. ASSUME NEW i \in DOMAIN Tail(s) PROVE Tail(s)[i] \in ToSet(s)
  <2>1. i + 1 \in DOMAIN s /\ Tail(s)[i] = s[i + 1]
    BY <1>1, <1>2
  <2>2. QED
    BY <2>1 DEF ToSet
<1>5. Head(s) \in ToSet(s)
  BY <1>1, <1>2 DEF ToSet
<1>6. QED
  BY <1>1, <1>3, <1>4, <1>5 DEF ToSet

LEMMA GateInv == ASSUME HttpInv, NEW r \in Requests, Gate(r) PROVE HttpInv'
<1>0. /\ req \in [Requests -> ReqType] /\ req[r] \in ReqType /\ Sound(req[r]) /\ Checked(req[r])
      /\ Recorded(req[r], r \in workspace.history, r \in workspace.unkept) /\ req[r].at = "gate" /\ req[r].todo # <<>>
  BY OneOf DEF Gate, Busy
<1>1. server' = server /\ members' = members /\ workspace' = workspace
  BY DEF Gate
<1> DEFINE path == Head(req[r].todo)
<1>2. r \notin workspace.history \cup workspace.unkept /\ Quiet(req[r]) /\ req[r].wish \in Wishes /\ Len(req[r].channel) <= Channel
  BY <1>0 DEF Recorded, Asking, Sound
<1>3. /\ req[r].todo \in Paths /\ path \in DOMAIN Entry /\ Tail(req[r].todo) \in Paths
      /\ ToSet(req[r].todo) = {path} \cup ToSet(Tail(req[r].todo))
  <2>1. req[r].todo \in Paths
    BY <1>0 DEF ReqType
  <2>2. QED
    BY <1>0, <2>1, ToSetOfTail DEF Paths
<1>4. ASSUME NEW e \in {"forbidden", "not_found"}, req' = Refused(r, e) PROVE HttpInv'
  <2>1. Status(e) \in Codes /\ Status(e) \notin Carried
    BY StatusOf DEF Codes, Carried
  <2>2. req' = [req EXCEPT ![r].at = "answered", ![r].status = Status(e)] /\ req[r].at \in Asking \ {"idle"}
    BY <1>0, <1>4 DEF Refused, Asking
  <2>3. QED
    BY <1>1, <1>2, <2>1, <2>2, NoBodyInv
<1>5. ASSUME req' = [req EXCEPT ![r].todo = Tail(@)], EntryConfined(path),
             req[r].wish.endpoint # "list" => MembersConfined(path)
      PROVE  HttpInv'
  <2>1. req' \in [Requests -> ReqType]
    <3>1. [req EXCEPT ![r].todo = Tail(req[r].todo)] \in [Requests -> ReqType]
      BY <1>0, <1>3, OneField, Zenon
    <3>2. QED
      BY <1>5, <3>1
  <2>2. /\ req'[r].at = "gate" /\ req'[r].wish = req[r].wish /\ req'[r].todo = Tail(req[r].todo)
        /\ Quiet(req'[r]) /\ Len(req'[r].channel) <= Channel
        /\ req'[r].opened = req[r].opened /\ req'[r].stale = req[r].stale
        /\ \A e \in Requests \ {r} : req'[e] = req[e]
    BY <1>0, <1>2, <1>5 DEF ReqType, Quiet
  <2>3. Sound(req'[r])
    BY <1>2, <2>2 DEF Sound, Asking, Streaming
  <2>4. Checked(req'[r])
    <3>1. server.root /\ req[r].wish.endpoint # "list" => "out" \notin members[path]
      BY <1>3, <1>5, CheckedPath
    <3>2. QED
      BY <1>0, <1>3, <2>2, <3>1 DEF Checked
  <2>5. Recorded(req'[r], r \in workspace'.history, r \in workspace'.unkept)
    BY <1>1, <1>2, <2>2 DEF Recorded
  <2>6. QED
    BY <1>1, <2>1, <2>2, <2>3, <2>4, <2>5, OneRequest
<1>6. \/ req' = Refused(r, "forbidden") \/ req' = Refused(r, "not_found")
      \/ req' = [req EXCEPT ![r].todo = Tail(@)] /\ EntryConfined(path)
         /\ (req[r].wish.endpoint # "list" => MembersConfined(path))
  BY DEF Gate
<1>7. QED
  BY <1>4, <1>5, <1>6

\* The handler goes on.
LEMMA GoesOnInv ==
  ASSUME HttpInv, NEW r \in Requests, req[r].at \in {"gate", "admit"},
         server.root => req[r].todo = <<>>,
         NEW place \in {"admit", "work"}, req' = [req EXCEPT ![r].at = place],
         UNCHANGED <<server, members, workspace>>
  PROVE  HttpInv'
<1>0. /\ req \in [Requests -> ReqType] /\ Sound(req[r]) /\ Checked(req[r])
      /\ Recorded(req[r], r \in workspace.history, r \in workspace.unkept)
  BY OneOf
<1>1. r \notin workspace.history \cup workspace.unkept /\ Quiet(req[r]) /\ req[r].wish \in Wishes /\ Len(req[r].channel) <= Channel
  BY <1>0 DEF Recorded, Asking, Sound
<1>2. req' \in [Requests -> ReqType]
  <2>1. place \in Places
    BY ReqConstants
  <2>2. [req EXCEPT ![r].at = place] \in [Requests -> ReqType]
    BY <1>0, <2>1, OneField, Zenon
  <2>3. QED
    BY <2>2
<1>3. /\ req'[r].at = place /\ req'[r].wish = req[r].wish /\ req'[r].todo = req[r].todo
      /\ Quiet(req'[r]) /\ Len(req'[r].channel) <= Channel
      /\ req'[r].opened = req[r].opened /\ req'[r].stale = req[r].stale
      /\ \A e \in Requests \ {r} : req'[e] = req[e]
  BY <1>0, <1>1 DEF ReqType, Quiet
<1>4. Sound(req'[r])
  BY <1>1, <1>3 DEF Sound, Asking, Streaming
<1>5. Checked(req'[r])
  BY <1>0, <1>3 DEF Checked
<1>6. Recorded(req'[r], r \in workspace'.history, r \in workspace'.unkept)
  BY <1>1, <1>3 DEF Recorded
<1>7. QED
  BY <1>2, <1>3, <1>4, <1>5, <1>6, OneRequest

LEMMA RunNeedsAnEngine == ASSUME NEW w, w.endpoint = "run" PROVE Need(w) \in {"query", "read"}
BY DEF Need, Handled, Run

LEMMA AdmitInv == ASSUME HttpInv, NEW r \in Requests, Admit(r) PROVE HttpInv'
<1>0. /\ req[r].at = "gate" /\ req[r].todo = <<>> /\ Recorded(req[r], r \in workspace.history, r \in workspace.unkept)
  BY OneOf DEF Admit, Busy
<1>1. r \notin workspace.history \cup workspace.unkept /\ UNCHANGED <<server, members, workspace>>
      /\ req[r].at \in Asking \ {"idle"}
  BY <1>0 DEF Recorded, Asking, Admit
<1>2. ASSUME NEW status \in Codes, req' = [req EXCEPT ![r].at = "answered", ![r].status = status],
             req[r].wish.endpoint = "run" => status \notin Carried
      PROVE  HttpInv'
  BY <1>1, <1>2, NoBodyInv
<1>3. CASE Need(req[r].wish) = "none"
  <2>1. req' = [req EXCEPT ![r].at = "answered", ![r].status = 200]
    BY <1>3 DEF Admit
  <2>2. req[r].wish.endpoint # "run" /\ 200 \in Codes
    BY <1>3, RunNeedsAnEngine DEF Codes
  <2>3. QED
    BY <1>2, <2>1, <2>2
<1>4. \A e \in {"other", "unsupported_operation"} :
         /\ Status(e) \in Codes
         /\ req' = Refused(r, e) => req' = [req EXCEPT ![r].at = "answered", ![r].status = Status(e)]
  BY StatusOf DEF Refused, Codes
<1>5. CASE req' = Refused(r, "other") /\ req[r].wish.endpoint = "query"
  BY <1>2, <1>4, <1>5
<1>6. CASE req' = Refused(r, "unsupported_operation")
  <2>1. Status("unsupported_operation") \notin Carried
    BY StatusOf DEF Carried
  <2>2. QED
    BY <1>2, <1>4, <1>6, <2>1
<1>7. CASE \E place \in {"admit", "work"} : req' = [req EXCEPT ![r].at = place]
  BY <1>0, <1>1, <1>7, GoesOnInv
<1>8. QED
  BY <1>3, <1>5, <1>6, <1>7 DEF Admit

LEMMA LookUpInv == ASSUME HttpInv, NEW r \in Requests, LookUp(r) PROVE HttpInv'
<1>0. /\ req[r].at = "admit" /\ Recorded(req[r], r \in workspace.history, r \in workspace.unkept)
      /\ Checked(req[r]) /\ UNCHANGED <<server, members, workspace>>
  BY OneOf DEF LookUp, Busy
<1>1. CASE req' = [req EXCEPT ![r].at = "work"]
  <2>1. server.root => req[r].todo = <<>>
    BY <1>0 DEF Checked
  <2>2. QED
    BY <1>0, <1>1, <2>1, GoesOnInv
<1>2. CASE req' = Refused(r, "not_found")
  <2>1. /\ Status("not_found") \in Codes /\ Status("not_found") \notin Carried
        /\ req' = [req EXCEPT ![r].at = "answered", ![r].status = Status("not_found")]
    BY <1>2, StatusOf DEF Codes, Carried, Refused
  <2>2. r \notin workspace.history \cup workspace.unkept /\ req[r].at \in Asking \ {"idle"}
    BY <1>0 DEF Recorded, Asking
  <2>3. QED
    BY <1>0, <2>1, <2>2, NoBodyInv
<1>3. QED
  BY <1>1, <1>2 DEF LookUp

-----------------------------------------------------------------------------
\* What an engine has opened is what the paths name.
LEMMA WhatIsOpened ==
  ASSUME HttpInv, NEW r \in Requests, req[r].at = "work"
  PROVE  Opened(r) \in Sides /\ (server.root /\ "out" \in Opened(r) => req[r].stale)
<1>0. /\ HttpTyped /\ req[r] \in ReqType /\ Sound(req[r]) /\ Checked(req[r])
  BY OneOf DEF HttpInv
<1>1. req[r].wish \in Wishes
  BY <1>0 DEF Sound
<1>2. ToSet(req[r].wish.paths) \subseteq DOMAIN Entry
  <2>1. req[r].wish.paths \in Seq(DOMAIN Entry)
    BY <1>1, WishFields DEF Paths
  <2>2. QED
    BY <2>1, ElementOfSeq, LenProperties DEF ToSet
<1>3. \A p \in ToSet(req[r].wish.paths) : members[p] \subseteq {"in", "out"}
  BY <1>0, <1>2 DEF HttpTyped, Sides
<1>4. Opened(r) \in Sides
  BY <1>3 DEF Opened, Sides
<1>5. ASSUME server.root, "out" \in Opened(r) PROVE req[r].stale
  <2>1. /\ req[r].wish.endpoint # "list"
        /\ \E p \in ToSet(req[r].wish.paths) : "out" \in members[p]
    BY <1>5 DEF Opened
  <2>2. req[r].todo = <<>>
    BY <1>0, <1>5 DEF Checked
  <2>3. ToSet(req[r].todo) = {}
    BY <2>2, EmptySeq, LenProperties DEF ToSet
  <2>4. QED
    BY <1>0, <1>5, <2>1, <2>3 DEF Checked
<1>6. QED
  BY <1>4, <1>5

\* And what a request at work is like.
LEMMA AtWork ==
  ASSUME HttpInv, NEW r \in Requests, req[r].at = "work"
  PROVE  /\ req \in [Requests -> ReqType] /\ req[r].wish \in Wishes /\ Quiet(req[r])
         /\ Len(req[r].channel) <= Channel /\ r \notin workspace.history \cup workspace.unkept
         /\ Limit(req[r].wish) \in Nat
<1>1. /\ req \in [Requests -> ReqType] /\ Sound(req[r]) /\ Recorded(req[r], r \in workspace.history, r \in workspace.unkept)
  BY OneOf
<1>2. req[r].wish \in Wishes /\ Quiet(req[r]) /\ Len(req[r].channel) <= Channel /\ r \notin workspace.history \cup workspace.unkept
  BY <1>1 DEF Sound, Asking, Recorded
<1>3. QED
  BY <1>1, <1>2, LimitIsNat

LEMMA AnswerStreamInv == ASSUME HttpInv, NEW r \in Requests, AnswerStream(r) PROVE HttpInv'
<1>0. req[r].at = "work" /\ Streams(r) /\ UNCHANGED <<server, members, workspace>>
  BY DEF AnswerStream, Busy
<1>1. PICK total \in 0 .. MaxRows :
        req' = [req EXCEPT ![r].at = "writing", ![r].status = 200, ![r].opened = Opened(r),
                           ![r].total = total, ![r].body = "open", ![r].written = 0]
  BY DEF AnswerStream
<1>2. /\ req \in [Requests -> ReqType] /\ req[r].wish \in Wishes /\ Quiet(req[r])
      /\ Len(req[r].channel) <= Channel /\ r \notin workspace.history \cup workspace.unkept /\ Limit(req[r].wish) \in Nat
  BY <1>0, AtWork
<1>3. Opened(r) \in Sides /\ (server.root /\ "out" \in Opened(r) => req[r].stale)
  BY <1>0, WhatIsOpened
<1>4. total \in Nat /\ total \in Totals
  BY ServerAssumption DEF Totals
<1>5. req' \in [Requests -> ReqType]
  <2>1. WithStream(req, r, Opened(r), total) \in [Requests -> ReqType]
    BY <1>2, <1>3, <1>4, Answers
  <2>2. QED
    BY <1>1, <2>1 DEF WithStream
<1>6. /\ req'[r].at = "writing" /\ req'[r].wish = req[r].wish /\ req'[r].opened = Opened(r)
      /\ req'[r].total = total /\ req'[r].body = "open" /\ req'[r].written = 0
      /\ req'[r].got = 0 /\ req'[r].channel = <<>> /\ ~req'[r].begun /\ ~req'[r].marked
      /\ req'[r].stale = req[r].stale /\ Len(req'[r].channel) <= Channel
      /\ \A e \in Requests \ {r} : req'[e] = req[e]
  BY <1>1, <1>2 DEF ReqType, Quiet
<1>7. Sound(req'[r])
  <2>1. StreamOf(req'[r])
    BY <1>0, <1>6 DEF StreamOf, Streams
  <2>2. Capped(req'[r]) \in Nat
    BY <1>2, <1>4, <1>6 DEF Capped, LowerOf
  <2>3. RowsIn(req'[r].channel) = 0 /\ DOMAIN req'[r].channel = {}
    BY <1>6, EmptySeq, LenProperties DEF RowsIn, Leading, Trailing, Starts, Ends
  <2>4. Open(req'[r])
    BY <1>6, <2>3 DEF Open
  <2>5. QED
    BY <1>2, <1>6, <2>1, <2>2, <2>4 DEF Sound, Asking
<1>8. Checked(req'[r])
  BY <1>3, <1>6 DEF Checked
<1>9. Recorded(req'[r], r \in workspace'.history, r \in workspace'.unkept)
  BY <1>6 DEF Recorded, Asking
<1>10. QED
  BY <1>0, <1>5, <1>6, <1>7, <1>8, <1>9, OneRequest

LEMMA AnswerWholeInv == ASSUME HttpInv, NEW r \in Requests, AnswerWhole(r) PROVE HttpInv'
<1>0. req[r].at = "work" /\ ~Streams(r) /\ UNCHANGED <<server, members>>
  BY DEF AnswerWhole, Busy
<1>1. PICK total \in 0 .. MaxRows : req' = Answered(r, total)
  BY DEF AnswerWhole
<1> DEFINE rows == LowerOf(total, Limit(req[r].wish))
           capped == req[r].wish.endpoint = "query" /\ rows >= Limit(req[r].wish)
<1>2. /\ req \in [Requests -> ReqType] /\ req[r].wish \in Wishes /\ Quiet(req[r])
      /\ Len(req[r].channel) <= Channel /\ r \notin workspace.history \cup workspace.unkept /\ Limit(req[r].wish) \in Nat
  BY <1>0, AtWork
<1>3. Opened(r) \in Sides /\ (server.root /\ "out" \in Opened(r) => req[r].stale)
  BY <1>0, WhatIsOpened
<1>4. /\ total \in Totals /\ total \in Nat /\ rows \in Nat /\ capped \in Flags
      /\ req[r].wish.endpoint = "query" /\ rows < total => capped
  BY <1>2, ServerAssumption DEF LowerOf, Flags, Totals
<1>5. req' = [req EXCEPT ![r].at = "answered", ![r].status = 200, ![r].opened = Opened(r),
                 ![r].total = total, ![r].got = rows, ![r].body = "whole", ![r].capped = capped]
  BY <1>1 DEF Answered
<1> HIDE DEF capped
<1>6. req' \in [Requests -> ReqType]
  <2> HIDE DEF rows
  <2>1. WithAnswer(req, r, Opened(r), total, rows, capped) \in [Requests -> ReqType]
    BY <1>2, <1>3, <1>4, Answers
  <2>2. QED
    BY <1>5, <2>1 DEF WithAnswer
<1>7. /\ req'[r].at = "answered" /\ req'[r].wish = req[r].wish /\ req'[r].opened = Opened(r)
      /\ req'[r].total = total /\ req'[r].body = "whole" /\ req'[r].written = 0
      /\ req'[r].got = rows /\ req'[r].channel = <<>> /\ req'[r].capped = capped
      /\ req'[r].stale = req[r].stale /\ Len(req'[r].channel) <= Channel /\ req'[r].status = 200
      /\ \A e \in Requests \ {r} : req'[e] = req[e]
  <2> HIDE DEF rows
  <2> QED BY <1>2, <1>5 DEF ReqType, Quiet
<1>8. Sound(req'[r])
  <2>1. ~StreamOf(req'[r])
    BY <1>0, <1>7 DEF StreamOf, Streams
  <2>2. Capped(req'[r]) = rows
    BY <1>7 DEF Capped
  <2>3. Whole(req'[r])
    <3> HIDE DEF rows
    <3> QED BY <1>4, <1>7, <2>1, <2>2 DEF Whole
  <2>4. QED
    BY <1>2, <1>7, <2>3 DEF Sound, Asking, Streaming
<1>9. Checked(req'[r])
  BY <1>3, <1>7 DEF Checked
<1>10. /\ workspace' = workspace \/ KeptFor(r)
       /\ Recorded(req'[r], r \in workspace'.history, r \in workspace'.unkept)
  <2>1. CASE req[r].wish.endpoint = "run"
    <3>1. Record(r) /\ workspace' = [workspace EXCEPT !.history = @ \cup {r}] /\ workspace \in [there : Flags, history : SUBSET Requests, unkept : SUBSET Requests]
      BY <2>1 DEF AnswerWhole, Record, HttpInv, HttpTyped
    <3>2. r \in workspace'.history /\ r \notin workspace'.unkept
      BY <1>2, <3>1
    <3>3. KeptFor(r)
      BY <3>1, KeptForOne DEF HttpInv
    <3>4. QED
      BY <1>7, <3>2, <3>3 DEF Recorded, Asking
  <2>2. CASE req[r].wish.endpoint # "run"
    <3>1. workspace' = workspace
      BY <2>2 DEF AnswerWhole
    <3>2. QED
      BY <1>2, <1>7, <2>2, <3>1 DEF Recorded, Asking
  <2>3. QED
    BY <2>1, <2>2
<1>11. QED
  BY <1>0, <1>6, <1>7, <1>8, <1>9, <1>10, OneRequest

LEMMA AnswerErrorInv ==
  ASSUME HttpInv, NEW r \in Requests, AnswerError(r) \/ AnswerUnkept(r) \/ AnswerLost(r)
  PROVE  HttpInv'
<1>0. req[r].at = "work" /\ UNCHANGED <<server, members>> /\ req[r].at \in Asking \ {"idle"}
  BY DEF AnswerError, AnswerUnkept, AnswerLost, Busy, Asking
<1>1. r \notin workspace.history \cup workspace.unkept /\ workspace \in [there : Flags, history : SUBSET Requests, unkept : SUBSET Requests]
  BY <1>0, AtWork DEF HttpInv, HttpTyped
<1>2. CASE AnswerLost(r)
  <2>1. /\ Status("not_found") \in Codes /\ Status("not_found") \notin Carried /\ workspace' = workspace
        /\ req' = [req EXCEPT ![r].at = "answered", ![r].status = Status("not_found")]
    BY <1>2, StatusOf DEF Codes, Carried, Refused, AnswerLost
  <2>2. QED
    BY <1>0, <1>1, <2>1, NoBodyInv
<1>3. CASE AnswerError(r)
  <2>1. PICK e \in Errors(req[r].wish) : req' = Refused(r, e)
    BY <1>3 DEF AnswerError
  <2>2. /\ Status(e) \in Codes /\ (req[r].wish.endpoint = "run" => Status(e) \in Carried)
        /\ req' = [req EXCEPT ![r].at = "answered", ![r].status = Status(e)]
    BY <2>1, StatusOf DEF Codes, Carried, Refused, Errors
  <2>3. \/ workspace' = workspace /\ req[r].wish.endpoint # "run"
        \/ Record(r) /\ req[r].wish.endpoint = "run"
    BY <1>3 DEF AnswerError
  <2>4. req[r].wish.endpoint = "run" => r \in workspace'.history /\ r \notin workspace'.unkept
    BY <1>1, <2>3 DEF Record
  <2>5. workspace' = workspace \/ KeptFor(r)
    BY <2>3, KeptForOne DEF HttpInv
  <2>6. QED
    BY <1>0, <2>2, <2>4, <2>5, NoBodyInv
<1>4. CASE AnswerUnkept(r)
  <2>1. PICK e \in {"io", "remote", "forbidden", "other"} : req' = Refused(r, e)
    BY <1>4 DEF AnswerUnkept
  <2>2. /\ Status(e) \in Codes /\ Status(e) # 200
        /\ req' = [req EXCEPT ![r].at = "answered", ![r].status = Status(e)]
    BY <2>1, StatusOf DEF Codes, Refused
  <2>3. PICK kept \in SUBSET {r} :
          workspace' = [workspace EXCEPT !.history = @ \cup kept, !.unkept = @ \cup {r}]
    BY <1>4 DEF AnswerUnkept
  <2>4. r \in workspace'.unkept
    BY <1>1, <2>3
  <2>5. KeptFor(r)
    BY <2>3 DEF KeptFor
  <2>6. QED
    BY <1>0, <2>2, <2>4, <2>5, NoBodyInv
<1>5. QED
  BY <1>2, <1>3, <1>4

-----------------------------------------------------------------------------
\* The channel: chunks are put in behind and taken out in front.
Shaped(sent) ==
  \A i \in DOMAIN sent : /\ sent[i] = "schema" => i = 1
                         /\ sent[i] \in {"end", "error"} => i = Len(sent)

LEMMA PutBehind ==
  ASSUME NEW sent \in Sent, NEW chunk \in Chunks, ~Ends(sent)
  PROVE  /\ Append(sent, chunk) \in Sent /\ Len(Append(sent, chunk)) = Len(sent) + 1
         /\ Append(sent, chunk) # <<>> /\ Append(sent, chunk)[Len(sent) + 1] = chunk
         /\ DOMAIN Append(sent, chunk) = 1 .. Len(sent) + 1 /\ DOMAIN sent = 1 .. Len(sent)
         /\ \A i \in 1 .. Len(sent) : Append(sent, chunk)[i] = sent[i]
         /\ chunk = "rows" => RowsIn(Append(sent, chunk)) = RowsIn(sent) + 1
         /\ chunk \in {"end", "error"} => RowsIn(Append(sent, chunk)) = RowsIn(sent)
         /\ chunk = "schema" /\ sent = <<>> => RowsIn(Append(sent, chunk)) = 0
<1> DEFINE more == Append(sent, chunk)
<1>1. /\ more \in Seq(Chunks) /\ Len(more) = Len(sent) + 1 /\ more[Len(sent) + 1] = chunk
      /\ \A i \in 1 .. Len(sent) : more[i] = sent[i]
  BY AppendProperties DEF Sent
<1>2. Len(sent) \in Nat /\ DOMAIN sent = 1 .. Len(sent) /\ DOMAIN more = 1 .. Len(sent) + 1
  BY <1>1, LenProperties DEF Sent
<1>3. more # <<>> /\ (sent = <<>> <=> Len(sent) = 0)
  BY <1>1, <1>2, EmptySeq DEF Sent
<1> HIDE DEF more
<1>4. Ends(more) <=> chunk \in {"end", "error"}
  BY <1>1, <1>3 DEF Ends
<1>5. chunk # "schema" => (Starts(more) <=> Starts(sent))
  BY <1>1, <1>2, <1>3 DEF Starts
<1>6. sent = <<>> /\ chunk = "schema" => Starts(more)
  BY <1>1, <1>2, <1>3 DEF Starts
<1>a. /\ Leading(sent) \in {0, 1} /\ Trailing(sent) = 0
      /\ chunk # "schema" => Leading(more) = Leading(sent)
      /\ chunk = "schema" /\ sent = <<>> => Leading(more) = 1
  BY <1>5, <1>6 DEF Leading, Trailing
<1>b. Trailing(more) = IF chunk \in {"end", "error"} THEN 1 ELSE 0
  BY <1>4 DEF Trailing
<1>7. /\ chunk = "rows" => RowsIn(more) = RowsIn(sent) + 1
      /\ chunk \in {"end", "error"} => RowsIn(more) = RowsIn(sent)
  BY <1>1, <1>2, <1>a, <1>b DEF RowsIn
<1>8. chunk = "schema" /\ sent = <<>> => RowsIn(more) = 0
  BY <1>1, <1>2, <1>3, <1>a, <1>b DEF RowsIn
<1>9. QED
  BY <1>1, <1>2, <1>3, <1>7, <1>8 DEF more, Sent

LEMMA TakenInFront ==
  ASSUME NEW sent \in Sent, sent # <<>>, Shaped(sent)
  PROVE  /\ Tail(sent) \in Sent /\ Len(Tail(sent)) = Len(sent) - 1 /\ Head(sent) \in Chunks
         /\ DOMAIN Tail(sent) = 1 .. Len(sent) - 1 /\ DOMAIN sent = 1 .. Len(sent)
         /\ \A i \in 1 .. Len(sent) - 1 : Tail(sent)[i] = sent[i + 1]
         /\ Len(sent) \in Nat \ {0}
         /\ Head(sent) = "schema" => RowsIn(Tail(sent)) = RowsIn(sent)
         /\ Head(sent) = "rows" => RowsIn(Tail(sent)) = RowsIn(sent) - 1
         /\ Head(sent) \in {"end", "error"} => Tail(sent) = <<>> /\ RowsIn(sent) = 0 /\ RowsIn(Tail(sent)) = 0
         /\ Head(sent) \notin {"end", "error"} => (Ends(sent) <=> Ends(Tail(sent)))
<1> DEFINE less == Tail(sent)
<1>1. /\ Head(sent) \in Chunks /\ less \in Seq(Chunks) /\ Len(less) = Len(sent) - 1 /\ Head(sent) = sent[1]
      /\ \A i \in 1 .. Len(less) : less[i] = sent[i + 1]
  BY HeadTailProperties DEF Sent
<1>2. /\ Len(sent) \in Nat \ {0} /\ DOMAIN sent = 1 .. Len(sent) /\ DOMAIN less = 1 .. Len(sent) - 1
      /\ (less = <<>> <=> Len(sent) = 1)
  BY <1>1, LenProperties, EmptySeq DEF Sent
<1> HIDE DEF less
<1>3. ~Starts(less)
  <2>1. CASE Len(sent) = 1
    BY <1>2, <2>1 DEF Starts
  <2>2. CASE Len(sent) # 1
    <3>1. less[1] = sent[2] /\ 2 \in DOMAIN sent
      BY <1>1, <1>2, <2>2
    <3>2. sent[2] # "schema"
      BY <3>1 DEF Shaped
    <3>3. QED
      BY <3>1, <3>2 DEF Starts
  <2>3. QED
    BY <2>1, <2>2
<1>4. Starts(sent) <=> Head(sent) = "schema"
  BY <1>1 DEF Starts
<1>5. Head(sent) \in {"end", "error"} => Len(sent) = 1 /\ Ends(sent)
  BY <1>1, <1>2 DEF Shaped, Ends
<1>6. Head(sent) \notin {"end", "error"} => (Ends(sent) <=> Ends(less))
  <2>1. CASE Len(sent) = 1
    BY <1>1, <1>2, <2>1 DEF Ends
  <2>2. CASE Len(sent) # 1
    <3>1. less[Len(less)] = sent[Len(sent)] /\ less # <<>>
      BY <1>1, <1>2, <2>2
    <3>2. QED
      BY <3>1 DEF Ends
  <2>3. QED
    BY <2>1, <2>2
<1>7. Head(sent) \in {"end", "error"} => less = <<>> /\ ~Ends(less)
  BY <1>2, <1>5 DEF Ends
<1>a. Leading(less) = 0 /\ Leading(sent) = IF Head(sent) = "schema" THEN 1 ELSE 0
  BY <1>3, <1>4 DEF Leading
<1>b. /\ Trailing(sent) \in {0, 1}
      /\ Head(sent) \notin {"end", "error"} => Trailing(less) = Trailing(sent)
      /\ Head(sent) \in {"end", "error"} => Trailing(sent) = 1 /\ Trailing(less) = 0
  BY <1>5, <1>6, <1>7 DEF Trailing
<1>8. /\ Head(sent) = "schema" => RowsIn(less) = RowsIn(sent)
      /\ Head(sent) = "rows" => RowsIn(less) = RowsIn(sent) - 1
  BY <1>1, <1>2, <1>a, <1>b DEF RowsIn
<1>9. Head(sent) \in {"end", "error"} => RowsIn(sent) = 0 /\ RowsIn(less) = 0
  BY <1>1, <1>2, <1>5, <1>7, <1>a, <1>b DEF RowsIn
<1>10. QED
  BY <1>1, <1>2, <1>6, <1>7, <1>8, <1>9 DEF less, Sent

\* What a stream is like, and what is to be shown of a step of one.
LEMMA OfAStream ==
  ASSUME HttpInv, NEW r \in Requests, req[r].at \in Streaming
  PROVE  /\ req \in [Requests -> ReqType] /\ req[r] \in ReqType /\ req[r].wish \in Wishes
         /\ req[r].channel \in Sent /\ Len(req[r].channel) \in Nat /\ Len(req[r].channel) <= Channel
         /\ req[r].got \in Nat /\ req[r].written \in Nat /\ req[r].begun \in BOOLEAN
         /\ req[r].marked \in BOOLEAN /\ Capped(req[r]) \in Nat
         /\ StreamOf(req[r]) /\ req[r].got <= req[r].written /\ req[r].written <= Capped(req[r])
         /\ req[r].body \in {"open", "whole", "cut", "gone"}
         /\ req[r].body = "open" => Open(req[r]) /\ Shaped(req[r].channel)
         /\ req[r].body = "open" /\ req[r].at # "over" => ~Ends(req[r].channel)
         /\ req[r].body = "whole" => req[r].at = "over" /\ req[r].marked /\ req[r].got = Capped(req[r])
<1>1. /\ req \in [Requests -> ReqType] /\ req[r] \in ReqType /\ Sound(req[r]) /\ req[r].at # "idle"
  BY OneOf DEF Streaming
<1>2. /\ req[r].channel \in Sent /\ req[r].got \in Nat /\ req[r].written \in Nat /\ req[r].total \in Nat
      /\ req[r].begun \in BOOLEAN /\ req[r].marked \in BOOLEAN
  BY <1>1, ServerAssumption DEF ReqType, Flags, Totals
<1>3. Len(req[r].channel) \in Nat /\ DOMAIN req[r].channel = 1 .. Len(req[r].channel)
  BY <1>2, LenProperties DEF Sent
<1>4. req[r].wish \in Wishes /\ Capped(req[r]) \in Nat
  BY <1>1, <1>2, LimitIsNat DEF Sound, Capped, LowerOf
<1>5. req[r].body = "open" => Open(req[r])
  BY <1>1 DEF Sound
<1>6. req[r].body = "open" => Shaped(req[r].channel)
  BY <1>5 DEF Open, Shaped
<1>7. req[r].body = "open" /\ req[r].at # "over" => ~Ends(req[r].channel)
  <2>1. SUFFICES ASSUME req[r].body = "open", Ends(req[r].channel) PROVE req[r].at = "over"
    OBVIOUS
  <2>2. Len(req[r].channel) \in DOMAIN req[r].channel
    BY <1>2, <1>3, <2>1, EmptySeq DEF Ends, Sent
  <2>3. QED
    BY <1>5, <2>1, <2>2 DEF Open, Ends
<1>8. QED
  BY <1>1, <1>2, <1>3, <1>4, <1>5, <1>6, <1>7 DEF Sound

LEMMA StreamStep ==
  ASSUME HttpInv, NEW r \in Requests, req[r].at \in Streaming, req' \in [Requests -> ReqType],
         \A e \in Requests \ {r} : req'[e] = req[e],
         UNCHANGED <<server, members, workspace>>,
         req'[r].at \in Streaming, req'[r].wish = req[r].wish, req'[r].total = req[r].total,
         req'[r].opened = req[r].opened, req'[r].stale = req[r].stale,
         Len(req'[r].channel) <= Channel,
         req'[r].got <= req'[r].written, req'[r].written <= Capped(req[r]),
         req'[r].body \in {"open", "whole", "cut", "gone"},
         req'[r].body = "open" => Open(req'[r]),
         req'[r].body = "whole" => req'[r].at = "over" /\ req'[r].marked /\ req'[r].got = Capped(req[r])
  PROVE  HttpInv'
<1>1. /\ Checked(req[r]) /\ req[r].wish \in Wishes /\ StreamOf(req[r])
  BY OneOf, OfAStream
<1>2. Capped(req'[r]) = Capped(req[r]) /\ StreamOf(req'[r])
  BY <1>1 DEF Capped, StreamOf
<1>3. Sound(req'[r])
  BY <1>1, <1>2 DEF Sound, Streaming, Asking
<1>4. Checked(req'[r])
  BY <1>1 DEF Checked, Streaming
<1>5. Recorded(req'[r], r \in workspace'.history, r \in workspace'.unkept)
  BY DEF Recorded, Streaming, Asking
<1>6. QED
  BY <1>3, <1>4, <1>5, OneRequest

\* A chunk is put into the channel of a stream that is read: the shape it keeps.
LEMMA OpenAfterPut ==
  ASSUME NEW q, NEW p, NEW chunk \in Chunks \ {"schema"}, q.channel \in Sent, Open(q), ~Ends(q.channel), q.begun,
         q.got \in Nat, q.written \in Nat, ~q.marked, q.at # "over",
         p.channel = Append(q.channel, chunk), p.got = q.got, p.begun = q.begun, p.marked = q.marked,
         p.written = (IF chunk = "rows" THEN q.written + 1 ELSE q.written),
         chunk = "rows" => p.at # "over",
         chunk # "rows" => p.at = "over",
         chunk = "end" => p.written = Capped(p)
  PROVE  Open(p)
<1>1. /\ Append(q.channel, chunk) \in Sent /\ Len(Append(q.channel, chunk)) = Len(q.channel) + 1
      /\ p.channel # <<>> /\ p.channel[Len(q.channel) + 1] = chunk
      /\ DOMAIN p.channel = 1 .. Len(q.channel) + 1 /\ DOMAIN q.channel = 1 .. Len(q.channel)
      /\ \A i \in 1 .. Len(q.channel) : p.channel[i] = q.channel[i]
      /\ chunk = "rows" => RowsIn(p.channel) = RowsIn(q.channel) + 1
      /\ chunk \in {"end", "error"} => RowsIn(p.channel) = RowsIn(q.channel)
  BY PutBehind
<1>2. chunk \in {"rows", "end", "error"} /\ Len(q.channel) \in Nat /\ Len(p.channel) = Len(q.channel) + 1
  BY <1>1, LenProperties DEF Chunks, Sent
<1>3. q.written = q.got + RowsIn(q.channel) /\ RowsIn(q.channel) \in Int
  <2>1. RowsIn(q.channel) \in Int
    BY <1>2 DEF RowsIn, Leading, Trailing
  <2>2. QED
    BY <2>1 DEF Open
<1>4. p.written = p.got + RowsIn(p.channel)
  BY <1>1, <1>2, <1>3
<1>5. ASSUME NEW i \in DOMAIN p.channel
      PROVE  /\ p.channel[i] = "schema" => i = 1
             /\ p.channel[i] \in {"end", "error"} => i = Len(p.channel) /\ p.at = "over"
  <2>1. CASE i = Len(q.channel) + 1
    BY <1>1, <1>2, <2>1
  <2>2. CASE i \in DOMAIN q.channel
    BY <1>1, <2>2 DEF Open
  <2>3. QED
    BY <1>1, <1>2, <2>1, <2>2
<1>6. chunk # "rows" => Ends(p.channel) /\ p.channel[Len(p.channel)] = chunk
  BY <1>1, <1>2 DEF Ends
<1>7. QED
  BY <1>1, <1>2, <1>4, <1>5, <1>6 DEF Open

LEMMA WriteSchemaInv == ASSUME HttpInv, NEW r \in Requests, WriteSchema(r) PROVE HttpInv'
<1>0. /\ req[r].at = "writing" /\ ~req[r].begun /\ req[r].body = "open" /\ Len(req[r].channel) < Channel
      /\ UNCHANGED <<server, members, workspace>> /\ req[r].at \in Streaming
      /\ req' = [Put(r, "schema") EXCEPT ![r].begun = TRUE]
  BY DEF WriteSchema, Busy, Reading, Room, Streaming
<1>1. /\ req \in [Requests -> ReqType] /\ req[r].channel \in Sent /\ Open(req[r]) /\ req[r].got \in Nat
      /\ req[r].got <= req[r].written /\ req[r].written \in Nat /\ ~Ends(req[r].channel)
      /\ req[r].marked \in BOOLEAN /\ Capped(req[r]) \in Nat
  BY <1>0, OfAStream
<1>2. /\ req[r].channel = <<>> /\ req[r].written = 0 /\ ~req[r].marked /\ req[r].got = 0
  <2>1. req[r].channel = <<>> /\ req[r].written = 0 /\ ~req[r].marked
    BY <1>0, <1>1 DEF Open
  <2>2. QED
    BY <1>1, <2>1
<1>3. /\ Append(req[r].channel, "schema") \in Sent /\ Len(Append(req[r].channel, "schema")) = 1
      /\ Append(req[r].channel, "schema")[1] = "schema"
      /\ DOMAIN Append(req[r].channel, "schema") = 1 .. 1
      /\ RowsIn(Append(req[r].channel, "schema")) = 0
  <2> DEFINE sent == req[r].channel
  <2>1. sent \in Sent /\ sent = <<>> /\ Len(sent) = 0 /\ ~Ends(sent) /\ "schema" \in Chunks
    BY <1>1, <1>2 DEF Chunks
  <2> HIDE DEF sent
  <2>2. /\ Append(sent, "schema") \in Sent /\ Len(Append(sent, "schema")) = Len(sent) + 1
        /\ Append(sent, "schema")[Len(sent) + 1] = "schema"
        /\ DOMAIN Append(sent, "schema") = 1 .. Len(sent) + 1
        /\ RowsIn(Append(sent, "schema")) = 0
    BY <2>1, PutBehind
  <2>3. Len(sent) + 1 = 1
    BY <2>1
  <2>4. QED
    BY <2>2, <2>3 DEF sent
<1>4. req' \in [Requests -> ReqType]
  <2>1. Put(r, "schema") \in [Requests -> ReqType]
    <3>1. [req EXCEPT ![r].channel = Append(req[r].channel, "schema")] \in [Requests -> ReqType]
      BY <1>1, <1>3, OneField, Zenon
    <3>2. QED
      BY <3>1 DEF Put
  <2>2. TRUE \in Flags
    BY ReqConstants
  <2>3. QED
    BY <1>0, <2>1, <2>2, OneField, Zenon
<1>5. /\ req'[r].at = "writing" /\ req'[r].wish = req[r].wish /\ req'[r].total = req[r].total
      /\ req'[r].opened = req[r].opened /\ req'[r].stale = req[r].stale /\ req'[r].got = 0
      /\ req'[r].written = 0 /\ req'[r].body = "open" /\ req'[r].begun /\ ~req'[r].marked
      /\ req'[r].channel = Append(req[r].channel, "schema")
      /\ \A e \in Requests \ {r} : req'[e] = req[e]
  BY <1>0, <1>1, <1>2 DEF ReqType, Put
<1>6. Open(req'[r])
  BY <1>3, <1>5 DEF Open
<1>7. Len(req'[r].channel) <= Channel
  <2>1. Len(req[r].channel) = 0
    BY <1>2
  <2>2. QED
    BY <1>0, <1>3, <1>5, <2>1, ServerAssumption
<1>8. /\ req'[r].at \in Streaming /\ req'[r].got <= req'[r].written
      /\ req'[r].written <= Capped(req[r]) /\ req'[r].body # "whole"
      /\ req'[r].body \in {"open", "whole", "cut", "gone"}
  BY <1>1, <1>5 DEF Streaming
<1>9. QED
  BY <1>0, <1>4, <1>5, <1>6, <1>7, <1>8, StreamStep

\* Put, for any chunk.
LEMMA PutIsTyped ==
  ASSUME HttpInv, NEW r \in Requests, req[r].at \in {"writing", "failing"}, req[r].body = "open",
         NEW chunk \in Chunks
  PROVE  /\ Put(r, chunk) \in [Requests -> ReqType] /\ Put(r, chunk)[r].written = req[r].written
         /\ Len(Append(req[r].channel, chunk)) = Len(req[r].channel) + 1
<1>1. /\ req \in [Requests -> ReqType] /\ req[r].channel \in Sent /\ ~Ends(req[r].channel)
  BY OfAStream DEF Streaming
<1>2. /\ Append(req[r].channel, chunk) \in Sent
      /\ Len(Append(req[r].channel, chunk)) = Len(req[r].channel) + 1
  BY <1>1, PutBehind
<1>3. Put(r, chunk) \in [Requests -> ReqType]
  <2>1. [req EXCEPT ![r].channel = Append(req[r].channel, chunk)] \in [Requests -> ReqType]
    BY <1>1, <1>2, OneField, Zenon
  <2>2. QED
    BY <2>1 DEF Put
<1>4. Put(r, chunk)[r].written = req[r].written
  BY <1>1 DEF Put, ReqType
<1>5. QED
  BY <1>2, <1>3, <1>4

LEMMA WriteRowsInv == ASSUME HttpInv, NEW r \in Requests, WriteRows(r) PROVE HttpInv'
<1>0. /\ req[r].at = "writing" /\ req[r].begun /\ req[r].body = "open" /\ Len(req[r].channel) < Channel
      /\ UNCHANGED <<server, members, workspace>> /\ req[r].at \in Streaming
      /\ Left(r) > 0
      /\ req' = [Put(r, "rows") EXCEPT ![r].written = Put(r, "rows")[r].written + 1]
  BY DEF WriteRows, Busy, Reading, Room, Streaming
<1>1. /\ req \in [Requests -> ReqType] /\ req[r].channel \in Sent /\ Open(req[r]) /\ req[r].got \in Nat
      /\ req[r].got <= req[r].written /\ req[r].written \in Nat /\ ~Ends(req[r].channel)
      /\ req[r].marked \in BOOLEAN /\ Capped(req[r]) \in Nat
      /\ "rows" \in Chunks \ {"schema"} /\ Len(req[r].channel) \in Nat
  BY <1>0, OfAStream DEF Chunks
<1>2. /\ Put(r, "rows") \in [Requests -> ReqType] /\ Put(r, "rows")[r].written = req[r].written
      /\ Len(Append(req[r].channel, "rows")) = Len(req[r].channel) + 1
  BY <1>0, <1>1, PutIsTyped
<1>3. req[r].written + 1 <= Capped(req[r])
  BY <1>0, <1>1 DEF Left, Capped
<1>4. req' = [Put(r, "rows") EXCEPT ![r].written = req[r].written + 1]
  BY <1>0, <1>2
<1>5. req' \in [Requests -> ReqType]
  <2>1. req[r].written + 1 \in Nat
    BY <1>1
  <2>2. [Put(r, "rows") EXCEPT ![r].written = req[r].written + 1] \in [Requests -> ReqType]
    BY <1>2, <2>1, OneField, Zenon
  <2>3. QED
    BY <1>4, <2>2
<1>6. /\ req'[r].at = "writing" /\ req'[r].wish = req[r].wish /\ req'[r].total = req[r].total
      /\ req'[r].opened = req[r].opened /\ req'[r].stale = req[r].stale /\ req'[r].got = req[r].got
      /\ req'[r].written = req[r].written + 1 /\ req'[r].body = "open" /\ req'[r].begun = req[r].begun
      /\ req'[r].marked = req[r].marked /\ req'[r].channel = Append(req[r].channel, "rows")
      /\ \A e \in Requests \ {r} : req'[e] = req[e]
  BY <1>0, <1>1, <1>4 DEF ReqType, Put
<1>7. ~req[r].marked
  BY <1>0, <1>1 DEF Open
<1>8. Open(req'[r])
  BY <1>0, <1>1, <1>6, <1>7, OpenAfterPut
<1>9. Len(req'[r].channel) <= Channel
  BY <1>0, <1>1, <1>2, <1>6, ServerAssumption
<1>10. /\ req'[r].at \in Streaming /\ req'[r].got <= req'[r].written
       /\ req'[r].written <= Capped(req[r]) /\ req'[r].body # "whole"
       /\ req'[r].body \in {"open", "whole", "cut", "gone"}
  BY <1>1, <1>3, <1>6 DEF Streaming
<1>11. QED
  BY <1>0, <1>5, <1>6, <1>8, <1>9, <1>10, StreamStep

\* The last chunk: the end marker behind the last row, or an error.
LEMMA LastChunkInv ==
  ASSUME HttpInv, NEW r \in Requests, req[r].at \in {"writing", "failing"}, req[r].begun,
         req[r].body = "open", Len(req[r].channel) < Channel, NEW chunk \in {"end", "error"},
         chunk = "end" => req[r].written = Capped(req[r]),
         req' = [Put(r, chunk) EXCEPT ![r].at = "over"], UNCHANGED <<server, members, workspace>>
  PROVE  HttpInv'
<1>1. /\ req \in [Requests -> ReqType] /\ req[r].channel \in Sent /\ Open(req[r]) /\ req[r].got \in Nat
      /\ req[r].got <= req[r].written /\ req[r].written \in Nat /\ ~Ends(req[r].channel)
      /\ req[r].marked \in BOOLEAN /\ Capped(req[r]) \in Nat /\ req[r].written <= Capped(req[r])
      /\ chunk \in Chunks \ {"schema"} /\ Len(req[r].channel) \in Nat /\ req[r].at \in Streaming
  BY OfAStream DEF Chunks, Streaming
<1>2. /\ Put(r, chunk) \in [Requests -> ReqType]
      /\ Len(Append(req[r].channel, chunk)) = Len(req[r].channel) + 1
  BY <1>1, PutIsTyped
<1>3. req' \in [Requests -> ReqType]
  <2>1. "over" \in Places
    BY ReqConstants
  <2>2. [Put(r, chunk) EXCEPT ![r].at = "over"] \in [Requests -> ReqType]
    BY <1>2, <2>1, OneField, Zenon
  <2>3. QED
    BY <2>2
<1>4. /\ req'[r].at = "over" /\ req'[r].wish = req[r].wish /\ req'[r].total = req[r].total
      /\ req'[r].opened = req[r].opened /\ req'[r].stale = req[r].stale /\ req'[r].got = req[r].got
      /\ req'[r].written = req[r].written /\ req'[r].body = "open" /\ req'[r].begun = req[r].begun
      /\ req'[r].marked = req[r].marked /\ req'[r].channel = Append(req[r].channel, chunk)
      /\ \A e \in Requests \ {r} : req'[e] = req[e]
  BY <1>1 DEF ReqType, Put
<1>5. ~req[r].marked /\ Capped(req'[r]) = Capped(req[r]) /\ chunk # "rows"
  BY <1>1, <1>4 DEF Open, Capped
<1>6. Open(req'[r])
  BY <1>1, <1>4, <1>5, OpenAfterPut
<1>7. Len(req'[r].channel) <= Channel
  BY <1>1, <1>2, <1>4, ServerAssumption
<1>8. /\ req'[r].at \in Streaming /\ req'[r].got <= req'[r].written
      /\ req'[r].written <= Capped(req[r]) /\ req'[r].body # "whole"
      /\ req'[r].body \in {"open", "whole", "cut", "gone"}
  BY <1>1, <1>4 DEF Streaming
<1>9. QED
  BY <1>1, <1>3, <1>4, <1>6, <1>7, <1>8, StreamStep

\* The thread goes on, or away, and puts nothing.
LEMMA ThreadInv ==
  ASSUME HttpInv, NEW r \in Requests, NEW place \in {"failing", "over"}, req[r].at \in {"writing", "failing"},
         IF place = "over" THEN req[r].body # "open" ELSE req[r].begun,
         req' = [req EXCEPT ![r].at = place], UNCHANGED <<server, members, workspace>>
  PROVE  HttpInv'
<1>1. /\ req \in [Requests -> ReqType] /\ req[r].at \in Streaming /\ Len(req[r].channel) <= Channel
      /\ req[r].got <= req[r].written /\ req[r].written <= Capped(req[r])
      /\ req[r].body \in {"open", "whole", "cut", "gone"} /\ req[r].body # "whole"
      /\ req[r].body = "open" => Open(req[r])
  BY OfAStream DEF Streaming
<1>2. req' \in [Requests -> ReqType]
  <2>1. place \in Places
    BY ReqConstants
  <2>2. [req EXCEPT ![r].at = place] \in [Requests -> ReqType]
    BY <1>1, <2>1, OneField, Zenon
  <2>3. QED
    BY <2>2
<1>3. /\ req'[r].at = place /\ req'[r].wish = req[r].wish /\ req'[r].total = req[r].total
      /\ req'[r].opened = req[r].opened /\ req'[r].stale = req[r].stale /\ req'[r].got = req[r].got
      /\ req'[r].written = req[r].written /\ req'[r].body = req[r].body /\ req'[r].begun = req[r].begun
      /\ req'[r].marked = req[r].marked /\ req'[r].channel = req[r].channel
      /\ \A e \in Requests \ {r} : req'[e] = req[e]
  BY <1>1 DEF ReqType
<1>4. req'[r].body = "open" => Open(req'[r])
  BY <1>1, <1>3 DEF Open
<1>5. req'[r].at \in Streaming
  BY <1>3 DEF Streaming
<1>6. QED
  BY <1>1, <1>2, <1>3, <1>4, <1>5, StreamStep

LEMMA WriterInv == ASSUME HttpInv, NEW r \in Requests, Writer(r) \/ EngineFails(r) PROVE HttpInv'
<1>1. CASE Finish(r)
  <2>1. /\ req[r].at = "writing" /\ req[r].begun /\ req[r].body = "open" /\ Len(req[r].channel) < Channel
        /\ UNCHANGED <<server, members, workspace>> /\ Left(r) = 0
        /\ req' = [Put(r, "end") EXCEPT ![r].at = "over"]
    BY <1>1 DEF Finish, Busy, Reading, Room
  <2>2. req[r].written = Capped(req[r])
    <3>1. req[r].written \in Nat /\ Capped(req[r]) \in Nat
      BY <2>1, OfAStream DEF Streaming
    <3>2. QED
      BY <2>1, <3>1 DEF Left, Capped
  <2>3. QED
    BY <2>1, <2>2, LastChunkInv
<1>2. CASE WriteError(r)
  <2>1. req[r].at = "failing" /\ UNCHANGED <<server, members, workspace>>
    BY <1>2 DEF WriteError, Busy
  <2>2. CASE req[r].body = "open"
    <3>1. Len(req[r].channel) < Channel /\ req' = [Put(r, "error") EXCEPT ![r].at = "over"]
      BY <1>2, <2>2 DEF WriteError, Reading, Room
    <3>2. req[r].begun
      BY <2>1, <2>2, OfAStream DEF Open, Streaming
    <3>3. QED
      BY <2>1, <2>2, <3>1, <3>2, LastChunkInv
  <2>3. CASE req[r].body # "open"
    <3>1. req' = [req EXCEPT ![r].at = "over"]
      BY <1>2, <2>3 DEF WriteError, Reading
    <3>2. QED
      BY <2>1, <2>3, <3>1, ThreadInv
  <2>4. QED
    BY <2>2, <2>3
<1>3. CASE Abandon(r)
  BY <1>3, ThreadInv DEF Abandon, Busy, Reading
<1>4. CASE EngineFails(r)
  BY <1>4, ThreadInv DEF EngineFails, Busy
<1>5. QED
  BY <1>1, <1>2, <1>3, <1>4, WriteSchemaInv, WriteRowsInv DEF Writer

-----------------------------------------------------------------------------
\* A chunk is taken out of the channel: the rows that were written are still those
\* that the client has and those in the channel.
LEMMA ReceiveInv == ASSUME HttpInv, NEW r \in Requests, Receive(r) PROVE HttpInv'
<1> DEFINE chunk == Head(req[r].channel)
           after == [req EXCEPT ![r].channel = Tail(@)]
<1>0. /\ req[r].body = "open" /\ req[r].channel # <<>> /\ UNCHANGED <<server, members, workspace>>
      /\ req' = CASE chunk = "rows"   -> [after EXCEPT ![r].got = @ + 1]
                  [] chunk = "end"    -> [after EXCEPT ![r].marked = TRUE]
                  [] chunk = "error"  -> [after EXCEPT ![r].body = "cut"]
                  [] chunk = "schema" -> after
  BY DEF Receive, Reading
<1>1. req[r].at \in Streaming
  <2>1. Sound(req[r]) /\ req[r] \in ReqType
    BY OneOf
  <2>2. req[r].at \in Places
    BY <2>1 DEF ReqType
  <2>3. QED
    BY <1>0, <2>1, <2>2 DEF Sound, Quiet, Whole, Streaming, Asking, Places
<1>2. /\ req \in [Requests -> ReqType] /\ req[r].channel \in Sent /\ Open(req[r]) /\ req[r].got \in Nat
      /\ req[r].got <= req[r].written /\ req[r].written \in Nat /\ Shaped(req[r].channel)
      /\ req[r].marked \in BOOLEAN /\ req[r].begun \in BOOLEAN /\ Capped(req[r]) \in Nat
      /\ req[r].written <= Capped(req[r]) /\ Len(req[r].channel) <= Channel
  BY <1>0, <1>1, OfAStream
<1>3. /\ Tail(req[r].channel) \in Sent /\ Len(Tail(req[r].channel)) = Len(req[r].channel) - 1
      /\ chunk \in Chunks
      /\ DOMAIN Tail(req[r].channel) = 1 .. Len(req[r].channel) - 1
      /\ DOMAIN req[r].channel = 1 .. Len(req[r].channel)
      /\ \A i \in 1 .. Len(req[r].channel) - 1 : Tail(req[r].channel)[i] = req[r].channel[i + 1]
      /\ Len(req[r].channel) \in Nat \ {0}
      /\ chunk = "schema" => RowsIn(Tail(req[r].channel)) = RowsIn(req[r].channel)
      /\ chunk = "rows" => RowsIn(Tail(req[r].channel)) = RowsIn(req[r].channel) - 1
      /\ chunk \in {"end", "error"} =>
           /\ Tail(req[r].channel) = <<>> /\ RowsIn(req[r].channel) = 0
           /\ RowsIn(Tail(req[r].channel)) = 0
      /\ chunk \notin {"end", "error"} => (Ends(req[r].channel) <=> Ends(Tail(req[r].channel)))
  BY <1>0, <1>2, TakenInFront
<1>4. /\ after \in [Requests -> ReqType] /\ after[r].got = req[r].got
  <2>1. [req EXCEPT ![r].channel = Tail(req[r].channel)] \in [Requests -> ReqType]
    BY <1>2, <1>3, OneField, Zenon
  <2>2. after[r].got = req[r].got
    BY <1>2 DEF ReqType
  <2>3. QED
    BY <2>1, <2>2
<1>5. chunk \in {"rows", "end", "error", "schema"} /\ chunk = req[r].channel[1]
  <2>1. Head(req[r].channel) = req[r].channel[1]
    BY <1>0, <1>2, HeadTailProperties DEF Sent
  <2>2. QED
    BY <1>3, <2>1 DEF Chunks
<1>6. req' \in [Requests -> ReqType]
  <2>1. TRUE \in Flags /\ "cut" \in Bodies
    BY DEF Flags, Bodies
  <2> HIDE DEF after
  <2>2. /\ [after EXCEPT ![r].marked = TRUE] \in [Requests -> ReqType]
        /\ [after EXCEPT ![r].body = "cut"] \in [Requests -> ReqType]
    BY <1>4, <2>1, OneField, Zenon
  <2>3. [after EXCEPT ![r].got = after[r].got + 1] \in [Requests -> ReqType]
    <3>1. after[r].got + 1 \in Nat
      BY <1>2, <1>4
    <3>2. QED
      BY <1>4, <3>1, OneField, Zenon
  <2>4. CASE chunk = "rows"
    BY <1>0, <2>3, <2>4
  <2>5. CASE chunk = "end"
    BY <1>0, <2>2, <2>5
  <2>6. CASE chunk = "error"
    BY <1>0, <2>2, <2>6
  <2>7. CASE chunk = "schema"
    BY <1>0, <1>4, <2>7
  <2>8. QED
    BY <1>5, <2>4, <2>5, <2>6, <2>7
<1>7. /\ req'[r].at = req[r].at /\ req'[r].wish = req[r].wish /\ req'[r].total = req[r].total
      /\ req'[r].opened = req[r].opened /\ req'[r].stale = req[r].stale
      /\ req'[r].got = (IF chunk = "rows" THEN req[r].got + 1 ELSE req[r].got)
      /\ req'[r].written = req[r].written
      /\ req'[r].body = (IF chunk = "error" THEN "cut" ELSE req[r].body)
      /\ req'[r].begun = req[r].begun
      /\ req'[r].marked = (IF chunk = "end" THEN TRUE ELSE req[r].marked)
      /\ req'[r].channel = Tail(req[r].channel)
      /\ \A e \in Requests \ {r} : req'[e] = req[e]
  <2>1. CASE chunk = "rows"
    <3>1. req' = [[req EXCEPT ![r].channel = Tail(req[r].channel)] EXCEPT ![r].got = req[r].got + 1]
      BY <1>0, <1>4, <2>1
    <3>2. QED
      BY <1>2, <2>1, <3>1 DEF ReqType
  <2>2. CASE chunk = "end"
    <3>1. req' = [[req EXCEPT ![r].channel = Tail(req[r].channel)] EXCEPT ![r].marked = TRUE]
      BY <1>0, <2>2
    <3>2. QED
      BY <1>2, <2>2, <3>1 DEF ReqType
  <2>3. CASE chunk = "error"
    <3>1. req' = [[req EXCEPT ![r].channel = Tail(req[r].channel)] EXCEPT ![r].body = "cut"]
      BY <1>0, <2>3
    <3>2. QED
      BY <1>2, <2>3, <3>1 DEF ReqType
  <2>4. CASE chunk = "schema"
    <3>1. req' = [req EXCEPT ![r].channel = Tail(req[r].channel)]
      BY <1>0, <2>4
    <3>2. QED
      BY <1>2, <2>4, <3>1 DEF ReqType
  <2>5. QED
    BY <1>5, <2>1, <2>2, <2>3, <2>4
<1> HIDE DEF chunk, after
<1>8. /\ 1 \in DOMAIN req[r].channel /\ ~req[r].marked /\ req[r].begun
      /\ req[r].written = req[r].got + RowsIn(req[r].channel) /\ RowsIn(req[r].channel) \in Int
  <2>1. RowsIn(req[r].channel) \in Int
    BY <1>3 DEF RowsIn, Leading, Trailing
  <2>2. QED
    BY <1>0, <1>2, <1>3, <2>1 DEF Open
<1>9. req'[r].got <= req'[r].written
  <2>1. chunk = "rows" => RowsIn(req[r].channel) >= 1
    <3>1. SUFFICES ASSUME chunk = "rows" PROVE RowsIn(req[r].channel) >= 1
      OBVIOUS
    <3>2. Leading(req[r].channel) = 0
      BY <1>5, <3>1 DEF Leading, Starts
    <3>3. Len(req[r].channel) = 1 => Trailing(req[r].channel) = 0
      <4>1. SUFFICES ASSUME Len(req[r].channel) = 1 PROVE ~Ends(req[r].channel)
        BY DEF Trailing
      <4>2. req[r].channel[Len(req[r].channel)] = "rows"
        BY <1>5, <3>1, <4>1
      <4>3. QED
        BY <4>2 DEF Ends
    <3>4. Trailing(req[r].channel) \in {0, 1}
      BY DEF Trailing
    <3>5. Len(req[r].channel) \in Nat \ {0}
      BY <1>3
    <3>6. RowsIn(req[r].channel) = Len(req[r].channel) - 0 - Trailing(req[r].channel)
      BY <3>2 DEF RowsIn
    <3>7. \A n \in Nat \ {0}, m \in {0, 1} : (n = 1 => m = 0) => n - 0 - m >= 1
      OBVIOUS
    <3>8. QED
      BY <3>3, <3>4, <3>5, <3>6, <3>7
  <2>2. QED
    BY <1>2, <1>7, <1>8, <2>1
<1>10. ASSUME req'[r].body = "open" PROVE Open(req'[r])
  <2>1. chunk # "error"
    BY <1>7, <1>10
  <2>2. ASSUME NEW i \in DOMAIN req'[r].channel
        PROVE  /\ req'[r].channel[i] = "schema" => i = 1
               /\ req'[r].channel[i] \in {"end", "error"} => i = Len(req'[r].channel) /\ req'[r].at = "over"
    <3>1. /\ i \in 1 .. Len(req[r].channel) - 1 /\ req'[r].channel[i] = req[r].channel[i + 1]
          /\ i + 1 \in DOMAIN req[r].channel /\ Len(req'[r].channel) = Len(req[r].channel) - 1
      BY <1>3, <1>7
    <3>2. QED
      BY <1>2, <1>3, <1>7, <3>1 DEF Open
  <2>3. req'[r].written = req'[r].got + RowsIn(req'[r].channel)
    BY <1>2, <1>3, <1>5, <1>7, <1>8, <2>1
  <2>4. CASE chunk = "end"
    <3>1. req[r].at = "over" /\ Len(req[r].channel) = 1 /\ req[r].channel[Len(req[r].channel)] = "end"
      BY <1>2, <1>5, <1>8, <2>4 DEF Open
    <3>2. req[r].written = Capped(req[r])
      BY <1>2, <1>8, <3>1 DEF Open
    <3>3. Capped(req'[r]) = Capped(req[r])
      BY <1>7 DEF Capped
    <3>4. QED
      BY <1>3, <1>7, <1>8, <2>2, <2>3, <2>4, <3>1, <3>2, <3>3 DEF Open
  <2>5. CASE chunk \in {"rows", "schema"}
    <3>1. req'[r].at = "over" => Ends(req'[r].channel) /\ Ends(req[r].channel)
      BY <1>2, <1>3, <1>7, <1>8, <2>5 DEF Open
    <3>2. Ends(req'[r].channel) => req'[r].channel[Len(req'[r].channel)] = req[r].channel[Len(req[r].channel)]
      <4>1. SUFFICES ASSUME Ends(req'[r].channel)
                     PROVE  req'[r].channel[Len(req'[r].channel)] = req[r].channel[Len(req[r].channel)]
        OBVIOUS
      <4>2. req'[r].channel # <<>> /\ Len(req'[r].channel) = Len(req[r].channel) - 1
            /\ req'[r].channel \in Sent
        BY <1>3, <1>7, <4>1 DEF Ends
      <4>3. Len(req'[r].channel) # 0
        BY <4>2, EmptySeq DEF Sent
      <4>4. QED
        BY <1>3, <1>7, <4>2, <4>3
    <3>3. Capped(req'[r]) = Capped(req[r])
      BY <1>7 DEF Capped
    <3>4. req'[r].at = "over" /\ req'[r].channel[Len(req'[r].channel)] = "end" => req'[r].written = Capped(req'[r])
      BY <1>2, <1>7, <1>8, <3>1, <3>2, <3>3 DEF Open
    <3>5. ~req'[r].marked /\ req'[r].begun
      BY <1>7, <1>8, <2>5
    <3>6. QED
      BY <2>2, <2>3, <3>1, <3>4, <3>5 DEF Open
  <2>6. QED
    BY <1>5, <2>1, <2>4, <2>5
<1>11. /\ req'[r].at \in Streaming /\ req'[r].written <= Capped(req[r]) /\ req'[r].body # "whole"
       /\ req'[r].body \in {"open", "whole", "cut", "gone"} /\ Len(req'[r].channel) <= Channel
  <2>1. Len(Tail(req[r].channel)) <= Channel
    <3>1. Len(req[r].channel) \in Nat /\ Len(Tail(req[r].channel)) = Len(req[r].channel) - 1
      BY <1>3
    <3>2. QED
      BY <1>2, <3>1, ServerAssumption
  <2>2. req'[r].body # "whole" /\ req'[r].body \in {"open", "whole", "cut", "gone"}
    <3>1. req[r].body = "open"
      BY <1>0
    <3>2. req'[r].body = IF chunk = "error" THEN "cut" ELSE req[r].body
      BY <1>7
    <3>3. CASE chunk = "error"
      BY <3>2, <3>3
    <3>4. CASE chunk # "error"
      BY <3>1, <3>2, <3>4
    <3>5. QED
      BY <3>3, <3>4
  <2>3. QED
    BY <1>1, <1>2, <1>7, <2>1, <2>2
<1>12. QED
  BY <1>0, <1>1, <1>6, <1>7, <1>9, <1>10, <1>11, StreamStep

\* The client has the whole body, or goes away.
LEMMA ClientInv == ASSUME HttpInv, NEW r \in Requests, BodyEnds(r) \/ HangUp(r) PROVE HttpInv'
<1>0. req[r].body = "open" /\ UNCHANGED <<server, members, workspace>>
  BY DEF BodyEnds, HangUp, Reading
<1>1. req[r].at \in Streaming
  <2>1. Sound(req[r]) /\ req[r] \in ReqType
    BY OneOf
  <2>2. req[r].at \in Places
    BY <2>1 DEF ReqType
  <2>3. QED
    BY <1>0, <2>1, <2>2 DEF Sound, Quiet, Whole, Streaming, Asking, Places
<1>2. /\ req \in [Requests -> ReqType] /\ Open(req[r]) /\ req[r].got \in Nat
      /\ req[r].got <= req[r].written /\ req[r].written \in Nat
      /\ req[r].written <= Capped(req[r]) /\ Len(req[r].channel) <= Channel
  BY <1>0, <1>1, OfAStream
<1>3. CASE BodyEnds(r)
  <2>1. /\ req[r].at = "over" /\ req[r].channel = <<>>
        /\ req' = [req EXCEPT ![r].body = "whole"]
    BY <1>3 DEF BodyEnds, Busy
  <2>2. req' \in [Requests -> ReqType]
    <3>1. "whole" \in Bodies
      BY ReqConstants
    <3>2. QED
      BY <1>2, <2>1, <3>1, OneField, Zenon
  <2>3. /\ req'[r].at = "over" /\ req'[r].wish = req[r].wish /\ req'[r].total = req[r].total
        /\ req'[r].opened = req[r].opened /\ req'[r].stale = req[r].stale /\ req'[r].got = req[r].got
        /\ req'[r].written = req[r].written /\ req'[r].body = "whole"
        /\ req'[r].marked = req[r].marked /\ req'[r].channel = req[r].channel
        /\ \A e \in Requests \ {r} : req'[e] = req[e]
    BY <1>2, <2>1 DEF ReqType
  <2>4. req[r].marked /\ req[r].written = Capped(req[r])
    BY <1>2, <2>1 DEF Open, Ends
  <2>5. req[r].got = req[r].written
    <3>1. RowsIn(req[r].channel) = 0
      BY <2>1, EmptySeq, LenProperties DEF RowsIn, Leading, Trailing, Starts, Ends
    <3>2. QED
      BY <1>2, <3>1 DEF Open
  <2>6. /\ req'[r].at \in Streaming /\ req'[r].got <= req'[r].written /\ req'[r].written <= Capped(req[r])
        /\ Len(req'[r].channel) <= Channel /\ req'[r].marked /\ req'[r].got = Capped(req[r])
        /\ req'[r].body \in {"open", "whole", "cut", "gone"}
    BY <1>1, <1>2, <2>1, <2>3, <2>4, <2>5
  <2>7. QED
    BY <1>0, <1>1, <2>2, <2>3, <2>6, StreamStep
<1>4. CASE HangUp(r)
  <2>1. req' = [req EXCEPT ![r].body = "gone", ![r].channel = <<>>]
    BY <1>4 DEF HangUp
  <2>2. req' \in [Requests -> ReqType]
    <3>1. "gone" \in Bodies /\ <<>> \in Sent
      BY ReqConstants
    <3> DEFINE g == [req EXCEPT ![r].body = "gone"]
    <3>2. req' = [g EXCEPT ![r].channel = <<>>]
      BY <2>1
    <3> HIDE DEF g
    <3>3. g \in [Requests -> ReqType]
      BY <1>2, <3>1, OneField, Zenon DEF g
    <3>4. [g EXCEPT ![r].channel = <<>>] \in [Requests -> ReqType]
      BY <3>1, <3>3, OneField, Zenon
    <3>5. QED
      BY <3>2, <3>4
  <2>3. /\ req'[r].at = req[r].at /\ req'[r].wish = req[r].wish /\ req'[r].total = req[r].total
        /\ req'[r].opened = req[r].opened /\ req'[r].stale = req[r].stale /\ req'[r].got = req[r].got
        /\ req'[r].written = req[r].written /\ req'[r].body = "gone" /\ req'[r].channel = <<>>
        /\ \A e \in Requests \ {r} : req'[e] = req[e]
    BY <1>2, <2>1 DEF ReqType
  <2>4. Len(req'[r].channel) <= Channel
    <3>1. Len(req'[r].channel) = 0
      BY <2>3
    <3>2. QED
      BY <3>1, ServerAssumption
  <2>5. QED
    BY <1>0, <1>1, <1>2, <2>2, <2>3, <2>4, StreamStep
<1>5. QED
  BY <1>3, <1>4

-----------------------------------------------------------------------------
\* A writer adds to a table or a directory: whoever had checked it is behind.
LEMMA CommitInv == ASSUME HttpInv, NEW p \in DOMAIN Entry, Commit(p) PROVE HttpInv'
<1>0. /\ Entry[p].kind \in Tables /\ server' = server /\ workspace' = workspace
      /\ members' = [members EXCEPT ![p] = {"in", "out"}]
      /\ req' = [r \in Requests |->
                   [req[r] EXCEPT !.stale = @ \/ (~Busy(r, "idle") /\ p \in ToSet(req[r].wish.paths)
                                                  /\ p \notin ToSet(req[r].todo))]]
  BY DEF Commit, Tables
<1>1. HttpTyped
  BY DEF HttpInv
<1>2. ASSUME NEW r \in Requests
      PROVE  /\ req'[r] \in ReqType
             /\ req'[r].at = req[r].at /\ req'[r].wish = req[r].wish /\ req'[r].total = req[r].total
             /\ req'[r].opened = req[r].opened /\ req'[r].got = req[r].got /\ req'[r].todo = req[r].todo
             /\ req'[r].written = req[r].written /\ req'[r].body = req[r].body /\ req'[r].begun = req[r].begun
             /\ req'[r].marked = req[r].marked /\ req'[r].channel = req[r].channel
             /\ req'[r].status = req[r].status /\ req'[r].capped = req[r].capped
             /\ req'[r].stale <=> \/ req[r].stale
                                  \/ ~Busy(r, "idle") /\ p \in ToSet(req[r].wish.paths)
                                     /\ p \notin ToSet(req[r].todo)
  <2> DEFINE stale == req[r].stale \/ (~Busy(r, "idle") /\ p \in ToSet(req[r].wish.paths)
                                       /\ p \notin ToSet(req[r].todo))
  <2>1. req'[r] = [req[r] EXCEPT !.stale = stale] /\ stale \in Flags /\ req[r] \in ReqType
    BY <1>0, <1>1 DEF HttpTyped, Flags
  <2> HIDE DEF stale
  <2>2. /\ req'[r] \in ReqType /\ req'[r].stale = stale
        /\ req'[r].at = req[r].at /\ req'[r].wish = req[r].wish /\ req'[r].total = req[r].total
        /\ req'[r].opened = req[r].opened /\ req'[r].got = req[r].got /\ req'[r].todo = req[r].todo
        /\ req'[r].written = req[r].written /\ req'[r].body = req[r].body /\ req'[r].begun = req[r].begun
        /\ req'[r].marked = req[r].marked /\ req'[r].channel = req[r].channel
        /\ req'[r].status = req[r].status /\ req'[r].capped = req[r].capped
    BY <2>1 DEF ReqType
  <2>3. QED
    BY <2>2 DEF stale
<1>3. HttpTyped'
  <2>1. {"in", "out"} \in Sides
    BY DEF Sides
  <2>2. req' \in [Requests -> ReqType]
    <3>1. req' = [r \in Requests |-> req'[r]]
      BY <1>0
    <3>2. QED
      BY <1>2, <3>1
  <2>3. QED
    BY <1>0, <1>1, <2>1, <2>2 DEF HttpTyped
<1>4. /\ members'[p] = {"in", "out"} /\ \A q \in DOMAIN Entry \ {p} : members'[q] = members[q]
  BY <1>0, <1>1 DEF HttpTyped
<1>5. Outsiders'
  BY <1>0, <1>4 DEF HttpInv, Outsiders
<1>6. \A r \in Requests : Sound(req[r])'
  BY <1>2 DEF HttpInv, Sound, Quiet, Whole, Open, Capped, StreamOf
<1>7. \A r \in Requests : Recorded(req[r], r \in workspace.history, r \in workspace.unkept)'
  BY <1>0, <1>2 DEF HttpInv, Recorded
<1>8. ASSUME NEW r \in Requests, server.root PROVE Checked(req[r])'
  <2>1. Checked(req[r]) /\ Sound(req[r])
    BY OneOf
  <2>2. ASSUME req[r].at \in {"gate", "admit", "work"}, req[r].wish.endpoint # "list",
               NEW q \in ToSet(req[r].wish.paths) \ ToSet(req[r].todo), "out" \in members'[q]
        PROVE  req'[r].stale
    <3>1. CASE q = p
      BY <1>2, <2>2, <3>1 DEF Busy
    <3>2. CASE q # p
      <4>1. members'[q] = members[q]
        BY <1>0, <3>2, <1>1 DEF HttpTyped
      <4>2. QED
        BY <1>2, <1>8, <2>1, <2>2, <4>1 DEF Checked
    <3>3. QED
      BY <3>1, <3>2
  <2>3. QED
    BY <1>0, <1>2, <1>8, <2>1, <2>2 DEF Checked
<1>9. QED
  BY <1>0, <1>3, <1>5, <1>6, <1>7, <1>8 DEF HttpInv, Checked

LEMMA WorldInv == ASSUME HttpInv, World PROVE HttpInv'
<1>1. CASE DeleteWorkspace
  <2>1. /\ UNCHANGED <<server, members, req>> /\ workspace' = [workspace EXCEPT !.there = FALSE]
        /\ workspace \in [there : Flags, history : SUBSET Requests, unkept : SUBSET Requests] /\ FALSE \in Flags
    BY <1>1, ReqConstants DEF DeleteWorkspace, HttpInv, HttpTyped
  <2>2. workspace'.history = workspace.history /\ workspace'.unkept = workspace.unkept /\ workspace' \in [there : Flags, history : SUBSET Requests, unkept : SUBSET Requests]
    BY <2>1
  <2>3. HttpTyped' /\ Outsiders'
    BY <2>1, <2>2 DEF HttpInv, HttpTyped, Outsiders
  <2>4. ASSUME NEW r \in Requests
        PROVE  (Sound(req[r]) /\ Checked(req[r]) /\ Recorded(req[r], r \in workspace.history, r \in workspace.unkept))'
    BY <2>1, <2>2, OneOf DEF Sound, Quiet, Whole, Open, Capped, StreamOf, Checked, Recorded
  <2>5. QED
    BY <2>3, <2>4 DEF HttpInv
<1>2. QED
  BY <1>1, CommitInv DEF World

LEMMA HttpInitInv == HttpInit => HttpInv
<1> SUFFICES ASSUME HttpInit PROVE HttpInv
  OBVIOUS
<1> DEFINE q == [wish |-> NoWish, at |-> "idle", todo |-> <<>>, stale |-> FALSE, opened |-> {},
                 total |-> 0, begun |-> FALSE, written |-> 0, channel |-> <<>>, body |-> "none", got |-> 0,
                 marked |-> FALSE, status |-> 0, capped |-> FALSE]
<1>1. req = [r \in Requests |-> q] /\ workspace = [there |-> TRUE, history |-> {}, unkept |-> {}]
  BY DEF HttpInit
<1>2. q \in ReqType
  BY ReqConstants DEF ReqType
<1>3. HttpTyped
  BY <1>1, <1>2 DEF HttpInit, HttpTyped, Sides, Flags
<1>4. Outsiders
  BY DEF HttpInit, Outsiders
<1>5. Sound(q)
  BY ServerAssumption, EmptySeq, LenProperties DEF Sound, Quiet, Asking, Streaming
<1>6. Checked(q) /\ Recorded(q, FALSE, FALSE)
  BY DEF Checked, Recorded, Asking
<1>7. QED
  <2>1. \A r \in Requests : req[r] = q /\ r \notin workspace.history \cup workspace.unkept
    BY <1>1
  <2> HIDE DEF q
  <2>2. ASSUME NEW r \in Requests PROVE Sound(req[r]) /\ Checked(req[r]) /\ Recorded(req[r], r \in workspace.history, r \in workspace.unkept)
    BY <1>5, <1>6, <2>1 DEF Recorded
  <2>3. QED
    BY <1>3, <1>4, <2>2 DEF HttpInv

LEMMA HttpNextInv == HttpInv /\ [HttpNext]_httpVars => HttpInv'
<1> SUFFICES ASSUME HttpInv, [HttpNext]_httpVars PROVE HttpInv'
  OBVIOUS
<1>1. CASE UNCHANGED httpVars
  BY <1>1 DEF httpVars, HttpInv, HttpTyped, Outsiders, Sound, Quiet, Whole, Open, Capped, StreamOf,
              Checked, Recorded
<1>2. CASE HttpNext
  BY <1>2, ArriveInv, GateInv, AdmitInv, LookUpInv, AnswerStreamInv, AnswerWholeInv, AnswerErrorInv,
     WriterInv, ReceiveInv, ClientInv, WorldInv DEF HttpNext, Handler, Client
<1>3. QED
  BY <1>1, <1>2

-----------------------------------------------------------------------------
\* What follows from the invariant.
LEMMA HttpInvTypeOK == HttpInv => HttpTypeOK
<1> SUFFICES ASSUME HttpInv PROVE HttpTypeOK
  OBVIOUS
<1>1. /\ server \in Servers /\ members \in [DOMAIN Entry -> SUBSET {"in", "out"}]
      /\ workspace \in [there : BOOLEAN, history : SUBSET Requests, unkept : SUBSET Requests]
  BY DEF HttpInv, HttpTyped, Sides, Flags
<1>2. ASSUME NEW r \in Requests
      PROVE  /\ req[r].wish \in Wished \cup {NoWish} /\ req[r].at \in Places
             /\ req[r].todo \in Seq(DOMAIN Entry) /\ req[r].stale \in BOOLEAN
             /\ req[r].opened \subseteq {"in", "out"}
             /\ req[r].total \in 0 .. MaxRows /\ req[r].begun \in BOOLEAN
             /\ req[r].channel \in Seq(Chunks) /\ Len(req[r].channel) <= Channel
             /\ req[r].body \in {"none", "open", "whole", "cut", "gone"}
             /\ req[r].marked \in BOOLEAN
             /\ req[r].status \in {0, 200, 400, 401, 403, 404, 408, 413, 499, 500, 501, 502}
             /\ req[r].capped \in BOOLEAN
  <2>1. req[r] \in ReqType /\ Sound(req[r])
    BY OneOf
  <2>2. QED
    BY <2>1 DEF ReqType, Sound, Wanted, Paths, Sides, Sent, Bodies, Statuses, Flags, Totals
<1>3. ASSUME NEW r \in Requests
      PROVE  /\ req[r].written \in 0 .. QueryCap /\ req[r].got \in 0 .. MaxRows
             /\ req[r].wish.endpoint \in {"query", "run"} => req[r].got <= QueryCap
  <2>1. req[r] \in ReqType /\ Sound(req[r])
    BY OneOf
  <2>2. /\ req[r].total \in Nat /\ req[r].total <= MaxRows /\ req[r].written \in Nat
        /\ req[r].got \in Nat /\ MaxRows \in Nat /\ QueryCap \in Nat /\ req[r].at \in Places
    BY <2>1, ServerAssumption DEF ReqType, Totals
  <2>3. CASE req[r].at = "idle" \/ Quiet(req[r])
    <3>1. req[r].written = 0 /\ req[r].got = 0
      BY <2>1, <2>3 DEF Sound, Quiet, Asking
    <3>2. QED
      BY <2>2, <3>1
  <2>4. CASE req[r].at # "idle" /\ ~Quiet(req[r])
    <3>1. /\ Limit(req[r].wish) \in Nat
          /\ req[r].wish.endpoint \in {"query", "run"} => Limit(req[r].wish) <= QueryCap
      BY <2>1, <2>4, LimitIsNat DEF Sound
    <3>2. Capped(req[r]) <= req[r].total /\ Capped(req[r]) <= Limit(req[r].wish) /\ Capped(req[r]) \in Nat
      BY <2>2, <3>1 DEF Capped, LowerOf
    <3>3. \/ req[r].written = 0 /\ req[r].got = Capped(req[r])
          \/ /\ req[r].wish.endpoint = "query" /\ req[r].got <= req[r].written
             /\ req[r].written <= Capped(req[r])
      BY <2>1, <2>2, <2>4 DEF Sound, Whole, Asking, Streaming, Places, StreamOf
    <3>4. QED
      BY <2>2, <3>1, <3>2, <3>3
  <2>5. QED
    BY <2>3, <2>4
<1>4. QED
  BY <1>1, <1>2, <1>3 DEF HttpTypeOK

LEMMA HttpInvWhole == HttpInv => AnswerIsWhole
<1> SUFFICES ASSUME HttpInv, NEW r \in Requests, req[r].wish.endpoint = "query", req[r].body = "whole"
             PROVE  /\ req[r].got = Capped(req[r])
                    /\ Streams(r) => req[r].marked
                    /\ req[r].got < req[r].total =>
                         req[r].got = Limit(req[r].wish) /\ (Streams(r) \/ req[r].capped)
  BY DEF AnswerIsWhole, Capped
<1>1. req[r] \in ReqType /\ Sound(req[r])
  BY OneOf
<1>2. req[r].at \in Places /\ req[r].total \in Nat
  BY <1>1, ServerAssumption DEF ReqType, Totals
<1>3. req[r].at = "answered" \/ req[r].at \in Streaming
  BY <1>1, <1>2 DEF Sound, Quiet, Places, Asking, Streaming
<1>4. req[r].wish \in Wishes
  BY <1>1, <1>3 DEF Sound, Streaming
<1>5. Limit(req[r].wish) \in Nat
  BY <1>4, LimitIsNat
<1>6. CASE req[r].at = "answered"
  <2>1. Whole(req[r])
    BY <1>1, <1>6 DEF Sound, Quiet
  <2>2. ~Streams(r)
    BY <2>1 DEF Whole, StreamOf, Streams
  <2>3. QED
    BY <1>2, <1>5, <2>1, <2>2 DEF Whole, Capped, LowerOf
<1>7. CASE req[r].at \in Streaming
  <2>1. StreamOf(req[r]) /\ req[r].marked /\ req[r].got = Capped(req[r])
    BY <1>1, <1>7 DEF Sound
  <2>2. Streams(r)
    BY <2>1 DEF StreamOf, Streams
  <2>3. QED
    BY <1>2, <1>5, <2>1, <2>2 DEF Capped, LowerOf
<1>8. QED
  BY <1>3, <1>6, <1>7

LEMMA ServerHttpInv == Spec => []HttpInv
<1>1. Init => HttpInv
  BY HttpInitInv DEF Init
<1>2. HttpInv /\ [Next]_vars => HttpInv'
  BY HttpSteps, HttpNextInv
<1>3. QED
  BY <1>1, <1>2, PTL DEF Spec

-----------------------------------------------------------------------------
\* Types are kept, of the requests and of the database engine's calls.
THEOREM ServerTypeCorrect == Spec => []TypeOK
<1>1. Proved!Inv => Database!TypeOK
  BY Proved!InvTypeOK
     DEF Proved!TypeOK, Database!TypeOK, Proved!Dialects, Database!Dialects, Proved!Places, Database!Places,
         Proved!Asked, Database!Asked, Proved!NoAsk, Database!NoAsk, Proved!ConnUrl, Database!ConnUrl,
         Proved!Identity, Database!Identity, Proved!WithUserinfo, Database!WithUserinfo,
         Proved!NoCredentials, Database!NoCredentials, Proved!Cardinality, Database!Cardinality
<1>2. HttpInv /\ Proved!Inv => TypeOK
  BY <1>1, HttpInvTypeOK DEF TypeOK
<1>3. QED
  BY <1>2, EngineInv, ServerHttpInv, PTL

\* Under a root no engine opens a file outside it, unless the table was added to
\* after its files were checked, whatever else is served or written in the meantime
\* (confine.rs:67-76, engine/delta.rs:181).
THEOREM FilesAreConfined == Spec => []ServedIsConfined
<1>1. HttpInv => ServedIsConfined
  BY DEF HttpInv, Checked, ServedIsConfined
<1>2. QED
  BY <1>1, ServerHttpInv, PTL

\* A run that is answered is in the history of its workspace exactly if it reached
\* the engine, though the workspace may be deleted meanwhile; or the store failed to
\* take its record, and the answer is no success (api.rs:1497-1555).
THEOREM RunsAreInTheHistory == Spec => []RunsAreRecorded
<1>1. HttpInv => RunsAreRecorded
  BY DEF HttpInv, Recorded, RunsAreRecorded
<1>2. QED
  BY <1>1, ServerHttpInv, PTL

\* A body that ended without an error has every row the cap lets through, and its
\* end marker if it is a stream, however the writer, the channel and the client
\* interleave (api.rs:1098-1103, 1145-1149).
THEOREM AnswersAreWhole == Spec => []AnswerIsWhole
<1>1. QED
  BY HttpInvWhole, ServerHttpInv, PTL
=============================================================================
