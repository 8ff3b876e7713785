------------------------------ MODULE HttpServer ------------------------------
(***************************************************************************)
(* `lakeleto serve`: a request is authorized, each path it names is        *)
(* confined and resolved, an engine is chosen for it, and the engine works *)
(* on a thread of its own, which answers at once or writes a stream of     *)
(* chunks through a channel (src/src/api.rs, confine.rs,                   *)
(* engine/registry.rs).                                                    *)
(*                                                                         *)
(* While requests are served, writers add files to the tables they read,   *)
(* the workspace they run in may be deleted, and clients hang up.          *)
(***************************************************************************)
EXTENDS Naturals, SequencesExt, FiniteSets

CONSTANTS
  Requests,    \* the requests
  Wishes,      \* what they ask for: records (see Wished)
  Entry,       \* for each path, what it names: [kind, in]
  Servers,     \* how a server is started: [token, root, loopback, sql, database]
  QueryCap,    \* QUERY_CAP, MAX_RUN and the other row caps
  DefaultCap,  \* what a request that names no limit gets
  MaxRows,     \* bound: the rows a query has
  Channel      \* chunks in flight

VARIABLES
  server,     \* how this one was
  members,    \* for each path, where the files it reads lie: inside the root or outside
  workspace,  \* is the workspace there, which requests are in its history, and (history
              \* variable) of which the store failed to take the record
  req         \* what each request is doing

httpVars == <<server, members, workspace, req>>

Kinds == {"file", "directory", "delta", "iceberg", "missing", "object", "database", "catalog"}

\* An endpoint, the token sent with the request and how, the paths it names, and
\* what its handler looks at besides.
Wished ==
  [endpoint : {"page", "engines", "schema", "info", "preview", "profile", "query", "rows",
               "stats", "export", "list", "run", "workspaces"},
   token : {"right", "wrong", "none"}, inQuery : BOOLEAN, paths : Seq(DOMAIN Entry),
   limit : 0 .. MaxRows + 1, limited : BOOLEAN, sql : BOOLEAN, plain : BOOLEAN,
   stream : BOOLEAN, arrow : BOOLEAN]

NoWish == [endpoint |-> "none"]

-----------------------------------------------------------------------------
(* What a handler decides.                                                 *)

LowerOf(a, b) == IF a <= b THEN a ELSE b
Clamp(n, low, high) == IF n < low THEN low ELSE LowerOf(n, high)

\* Only /v1 needs the token; in the URL it counts on a loopback address alone.
TokenFrom(w) == IF w.inQuery /\ ~server.loopback THEN "none" ELSE w.token
Authorized(w) == w.endpoint = "page" \/ ~server.token \/ TokenFrom(w) = "right"

\* The rows asked for, as they were asked for.
AskedRows(w) == IF w.limited THEN w.limit ELSE DefaultCap

\* A preview may be of no rows; the smallest window, query and run have a row.
AtMostCap(w) == LowerOf(AskedRows(w), QueryCap)
WithinCap(w) == Clamp(AskedRows(w), 1, QueryCap)

\* The handlers: what each wants of an engine, what it asks of it, and the rows
\* it will have at most.
Page(w) == [need |-> "none", ask |-> "nothing", rows |-> 0]
Engines(w) == [need |-> "none", ask |-> "nothing", rows |-> 0]
Schema(w) == [need |-> "read", ask |-> "schema", rows |-> 0]
Info(w) == [need |-> "read", ask |-> "schema", rows |-> 0]
Preview(w) == [need |-> "read", ask |-> "preview", rows |-> AtMostCap(w)]
Profile(w) == [need |-> "read", ask |-> "profile", rows |-> AtMostCap(w)]
Stats(w) == [need |-> "read", ask |-> "profile", rows |-> DefaultCap]
Rows(w) == [need |-> "scan", ask |-> "scan", rows |-> WithinCap(w)]
Export(w) == [need |-> "scan", ask |-> "scan", rows |-> QueryCap]
QueryAsAsked(w) == [need |-> "query", ask |-> "query_capped", rows |-> AskedRows(w)]
Query(w) == [need |-> "query", ask |-> "query_capped", rows |-> WithinCap(w)]
List(w) == [need |-> "list", ask |-> "list_tables", rows |-> 0]
Run(w) ==
  IF w.sql THEN [need |-> "query", ask |-> "query_capped", rows |-> WithinCap(w)]
  ELSE [need |-> "read", ask |-> "preview", rows |-> WithinCap(w)]
Workspaces(w) == [need |-> "store", ask |-> "nothing", rows |-> 0]

Handled(w) ==
  CASE w.endpoint = "page" -> Page(w)       [] w.endpoint = "engines" -> Engines(w)
    [] w.endpoint = "schema" -> Schema(w)   [] w.endpoint = "info" -> Info(w)
    [] w.endpoint = "preview" -> Preview(w) [] w.endpoint = "profile" -> Profile(w)
    [] w.endpoint = "stats" -> Stats(w)     [] w.endpoint = "rows" -> Rows(w)
    [] w.endpoint = "export" -> Export(w)   [] w.endpoint = "query" -> Query(w)
    [] w.endpoint = "list" -> List(w)       [] w.endpoint = "run" -> Run(w)
    [] w.endpoint = "workspaces" -> Workspaces(w)

Limit(w) == Handled(w).rows
Need(w) == Handled(w).need

IsReference(path) == Entry[path].kind \in {"object", "database", "catalog"}

\* Checked before the path is resolved: under a root, no reference, and nothing
\* whose nearest existing ancestor lies outside.
EntryConfined(path) == server.root => ~IsReference(path) /\ Entry[path].in

\* Only the files of a directory are checked.
MembersOfDirectories(path) ==
  (server.root /\ Entry[path].kind = "directory") => members[path] \subseteq {"in"}

\* Checked after: each file the reader of this format will open.
MembersConfined(path) ==
  (server.root /\ Entry[path].kind \in {"directory", "delta", "iceberg"})
    => members[path] \subseteq {"in"}

OnDatabase(w) == \E i \in DOMAIN w.paths : Entry[w.paths[i]].kind = "database"

\* The engine that answers, or "none": a database table goes to the database
\* engine, SQL to the SQL engine, and so does a window that is sorted or filtered.
Resolve(w) ==
  IF OnDatabase(w) THEN IF server.database THEN "database" ELSE "none"
  ELSE IF Need(w) = "query" THEN IF server.sql THEN "sql" ELSE "none"
  ELSE IF Need(w) = "scan" /\ ~w.plain /\ server.sql THEN "sql"
  ELSE "local"

\* The status an error is answered with.
Status(error) ==
  CASE error \in {"query", "other", "unsupported_format"} -> 400
    [] error = "unauthorized" -> 401
    [] error = "forbidden" -> 403
    [] error = "not_found" -> 404
    [] error = "deadline" -> 408
    [] error = "too_large" -> 413
    [] error = "cancelled" -> 499
    [] error = "io" -> 500
    [] error = "unsupported_operation" -> 501
    [] error = "remote" -> 502

\* What an engine may answer with instead of rows, as far as it is modelled.
Errors(w) == {"query", "io"} \cup (IF w.endpoint = "export" THEN {"too_large"} ELSE {})

-----------------------------------------------------------------------------
Chunks == {"schema", "rows", "end", "error"}
Places == {"idle", "gate", "admit", "work", "writing", "failing", "answered", "over"}

HttpTypeOK ==
  /\ server \in Servers
  /\ members \in [DOMAIN Entry -> SUBSET {"in", "out"}]
  /\ workspace \in [there : BOOLEAN, history : SUBSET Requests, unkept : SUBSET Requests]
  /\ \A r \in Requests :
       /\ req[r].wish \in Wished \cup {NoWish} /\ req[r].at \in Places
       /\ req[r].todo \in Seq(DOMAIN Entry) /\ req[r].stale \in BOOLEAN
       /\ req[r].opened \subseteq {"in", "out"}
       /\ req[r].total \in 0 .. MaxRows /\ req[r].written \in 0 .. QueryCap
       /\ req[r].begun \in BOOLEAN
       /\ req[r].channel \in Seq(Chunks) /\ Len(req[r].channel) <= Channel
       /\ req[r].body \in {"none", "open", "whole", "cut", "gone"}
       /\ req[r].got \in 0 .. MaxRows /\ req[r].marked \in BOOLEAN
       /\ req[r].wish.endpoint \in {"query", "run"} => req[r].got <= QueryCap
       /\ req[r].status \in {0, 200, 400, 401, 403, 404, 408, 413, 499, 500, 501, 502}
       /\ req[r].capped \in BOOLEAN

HttpInit ==
  /\ server \in Servers
  /\ members = [p \in DOMAIN Entry |-> {IF Entry[p].in THEN "in" ELSE "out"}]
  /\ workspace = [there |-> TRUE, history |-> {}, unkept |-> {}]
  /\ req = [r \in Requests |->
              [wish |-> NoWish, at |-> "idle", todo |-> <<>>, stale |-> FALSE, opened |-> {},
               total |-> 0, begun |-> FALSE, written |-> 0, channel |-> <<>>, body |-> "none", got |-> 0,
               marked |-> FALSE, status |-> 0, capped |-> FALSE]]

Busy(r, place) == req[r].at = place
Refused(r, error) == [req EXCEPT ![r].at = "answered", ![r].status = Status(error)]

-----------------------------------------------------------------------------
(* The handler, up to the engine.                                          *)

Arrive(r) ==
  /\ Busy(r, "idle")
  /\ \E w \in Wishes :
       req' = IF Authorized(w)
              THEN [req EXCEPT ![r].wish = w, ![r].todo = w.paths, ![r].at = "gate"]
              ELSE [req EXCEPT ![r].wish = w, ![r].at = "answered",
                               ![r].status = Status("unauthorized")]
  /\ UNCHANGED <<server, members, workspace>>

\* One path: confined, resolved, and the files it reads confined; a listing reads
\* none.
Gate(r) ==
  /\ Busy(r, "gate") /\ req[r].todo # <<>>
  /\ LET path == Head(req[r].todo)
     IN req' = IF \/ ~EntryConfined(path)
                  \/ req[r].wish.endpoint # "list" /\ ~MembersConfined(path)
               THEN Refused(r, "forbidden")
               ELSE IF Entry[path].kind = "missing" THEN Refused(r, "not_found")
               ELSE [req EXCEPT ![r].todo = Tail(@)]
  /\ UNCHANGED <<server, members, workspace>>

\* Every path has passed: the engine is chosen, if the request makes sense.
Admit(r) ==
  /\ Busy(r, "gate") /\ req[r].todo = <<>>
  /\ LET w == req[r].wish
     IN req' = IF Need(w) = "none"
               THEN [req EXCEPT ![r].at = "answered", ![r].status = 200]
               ELSE IF Need(w) = "store" THEN [req EXCEPT ![r].at = "work"]
               ELSE IF w.endpoint = "query" /\ w.paths = <<>> THEN Refused(r, "other")
               ELSE IF Need(w) # "list" /\ Resolve(w) = "none"
                    THEN Refused(r, "unsupported_operation")
               ELSE IF w.endpoint = "query" /\ w.stream /\ ~w.arrow THEN Refused(r, "other")
               ELSE IF w.endpoint = "run" THEN [req EXCEPT ![r].at = "admit"]
               ELSE [req EXCEPT ![r].at = "work"]
  /\ UNCHANGED <<server, members, workspace>>

\* A run looks its workspace up before the engine is asked.
LookUp(r) ==
  /\ Busy(r, "admit")
  /\ req' = IF workspace.there THEN [req EXCEPT ![r].at = "work"] ELSE Refused(r, "not_found")
  /\ UNCHANGED <<server, members, workspace>>

-----------------------------------------------------------------------------
(* The engine's answer.                                                    *)

\* The files the engine opens: what the paths name now, and none for a listing.
Opened(r) ==
  UNION {members[p] : p \in {q \in ToSet(req[r].wish.paths) : req[r].wish.endpoint # "list"}}

\* A run that was carried out is recorded, whether it worked or not.
Record(r) == workspace' = [workspace EXCEPT !.history = @ \cup {r}]

Answered(r, total) ==
  LET rows == LowerOf(total, Limit(req[r].wish))
  IN [req EXCEPT ![r].at = "answered", ![r].status = 200, ![r].opened = Opened(r),
                 ![r].total = total, ![r].got = rows, ![r].body = "whole",
                 ![r].capped = req[r].wish.endpoint = "query" /\ rows >= Limit(req[r].wish)]

Streams(r) == req[r].wish.endpoint = "query" /\ req[r].wish.stream

\* The response is built after the plan is open, and says what the cap is.
AnswerStream(r) ==
  /\ Busy(r, "work") /\ Streams(r)
  /\ \E total \in 0 .. MaxRows :
       req' = [req EXCEPT ![r].at = "writing", ![r].status = 200, ![r].opened = Opened(r),
                          ![r].total = total, ![r].body = "open", ![r].written = 0]
  /\ UNCHANGED <<server, members, workspace>>

\* What a request that is about the workspace finds when it is carried out.
OfWorkspace(r) == req[r].wish.endpoint \in {"run", "workspaces"}
Lost(r) == OfWorkspace(r) /\ ~workspace.there

AnswerWhole(r) ==
  /\ Busy(r, "work") /\ ~Streams(r) /\ ~Lost(r)
  /\ \E total \in 0 .. MaxRows : req' = Answered(r, total)
  /\ IF req[r].wish.endpoint = "run" THEN Record(r) ELSE UNCHANGED workspace
  /\ UNCHANGED <<server, members>>

\* A run that failed, and returned before its record was made.
ErrorUnrecorded(r) ==
  /\ Busy(r, "work") /\ ~Lost(r)
  /\ \E e \in Errors(req[r].wish) : req' = Refused(r, e)
  /\ UNCHANGED <<server, members, workspace>>

AnswerError(r) ==
  /\ Busy(r, "work") /\ ~Lost(r)
  /\ \E e \in Errors(req[r].wish) : req' = Refused(r, e)
  /\ IF req[r].wish.endpoint = "run" THEN Record(r) ELSE UNCHANGED workspace
  /\ UNCHANGED <<server, members>>

\* The workspace is gone, whatever the engine said: the store's error is the answer.
AnswerLost(r) ==
  /\ Busy(r, "work") /\ Lost(r)
  /\ req' = Refused(r, "not_found")
  /\ UNCHANGED <<server, members, workspace>>

\* The store fails to take the record of a run that was carried out: a disk that is
\* full, a remote store that refuses it or cannot be reached.  The store's error is
\* the answer, whatever the engine said.  The history may have the record all the
\* same: the answer of the remote store was lost, or the line lacks its end only.
AnswerUnkept(r) ==
  /\ Busy(r, "work") /\ ~Lost(r) /\ req[r].wish.endpoint = "run"
  /\ \E e \in {"io", "remote", "forbidden", "other"} : req' = Refused(r, e)
  /\ \E kept \in SUBSET {r} :
       workspace' = [workspace EXCEPT !.history = @ \cup kept, !.unkept = @ \cup {r}]
  /\ UNCHANGED <<server, members>>

-----------------------------------------------------------------------------
(* The stream: a thread that pulls rows and writes chunks, and a client.   *)

\* The thread waits for room in the channel, and learns that nobody reads it.
Room(r) == Len(req[r].channel) < Channel
Reading(r) == req[r].body = "open"
Put(r, chunk) == [req EXCEPT ![r].channel = Append(@, chunk)]

\* The rows the engine still has for the stream; the cap is in its plan.
Left(r) == LowerOf(req[r].total, Limit(req[r].wish)) - req[r].written

\* Started: the writer writes the schema when it is made.
WriteSchema(r) ==
  /\ Busy(r, "writing") /\ ~req[r].begun /\ Reading(r) /\ Room(r)
  /\ req' = [Put(r, "schema") EXCEPT ![r].begun = TRUE]
  /\ UNCHANGED <<server, members, workspace>>

WriteRows(r) ==
  /\ Busy(r, "writing") /\ req[r].begun /\ Reading(r) /\ Room(r) /\ Left(r) > 0
  /\ req' = [Put(r, "rows") EXCEPT ![r].written = @ + 1]
  /\ UNCHANGED <<server, members, workspace>>

\* The engine fails at a batch: ending the stream with the error is all that is
\* left.  Only the SQL engine produces while it is read.
EngineFails(r) ==
  /\ Busy(r, "writing") /\ req[r].begun /\ Resolve(req[r].wish) = "sql"
  /\ req' = [req EXCEPT ![r].at = "failing"]
  /\ UNCHANGED <<server, members, workspace>>

\* An error that is only logged.
DropError(r) ==
  /\ Busy(r, "failing")
  /\ req' = [req EXCEPT ![r].at = "over"]
  /\ UNCHANGED <<server, members, workspace>>

WriteError(r) ==
  /\ Busy(r, "failing") /\ (~Reading(r) \/ Room(r))
  /\ req' = [IF Reading(r) THEN Put(r, "error") ELSE req EXCEPT ![r].at = "over"]
  /\ UNCHANGED <<server, members, workspace>>

\* The end-of-stream marker, after the last row.
Finish(r) ==
  /\ Busy(r, "writing") /\ req[r].begun /\ Reading(r) /\ Room(r) /\ Left(r) = 0
  /\ req' = [Put(r, "end") EXCEPT ![r].at = "over"]
  /\ UNCHANGED <<server, members, workspace>>

\* Only the first write is looked at: a client that leaves later is waited for.
AbandonAtFirst(r) ==
  /\ Busy(r, "writing") /\ ~Reading(r) /\ ~req[r].begun
  /\ req' = [req EXCEPT ![r].at = "over"]
  /\ UNCHANGED <<server, members, workspace>>

\* Nobody reads: the write fails, and so does the writing of that error.
Abandon(r) ==
  /\ Busy(r, "writing") /\ ~Reading(r)
  /\ req' = [req EXCEPT ![r].at = "over"]
  /\ UNCHANGED <<server, members, workspace>>

Receive(r) ==
  /\ Reading(r) /\ req[r].channel # <<>>
  /\ LET chunk == Head(req[r].channel)
         after == [req EXCEPT ![r].channel = Tail(@)]
     IN req' = CASE chunk = "rows"   -> [after EXCEPT ![r].got = @ + 1]
                 [] chunk = "end"    -> [after EXCEPT ![r].marked = TRUE]
                 [] chunk = "error"  -> [after EXCEPT ![r].body = "cut"]
                 [] chunk = "schema" -> after
  /\ UNCHANGED <<server, members, workspace>>

\* The thread is gone and the channel empty.
BodyEnds(r) ==
  /\ Reading(r) /\ Busy(r, "over") /\ req[r].channel = <<>>
  /\ req' = [req EXCEPT ![r].body = "whole"]
  /\ UNCHANGED <<server, members, workspace>>

\* The client goes away in the middle, and the body is dropped with its channel.
HangUp(r) ==
  /\ Reading(r)
  /\ req' = [req EXCEPT ![r].body = "gone", ![r].channel = <<>>]
  /\ UNCHANGED <<server, members, workspace>>

-----------------------------------------------------------------------------
(* Others.                                                                 *)

\* A writer adds a file that lies outside the root to a table or a directory that
\* some request is about.
Commit(p) ==
  /\ \E r \in Requests : ~Busy(r, "idle") /\ p \in ToSet(req[r].wish.paths)
  /\ Entry[p].kind \in {"directory", "delta", "iceberg"} /\ members[p] = {"in"}
  /\ members' = [members EXCEPT ![p] = {"in", "out"}]
  /\ req' = [r \in Requests |->
               [req[r] EXCEPT !.stale = @ \/ (~Busy(r, "idle") /\ p \in ToSet(req[r].wish.paths)
                                              /\ p \notin ToSet(req[r].todo))]]
  /\ UNCHANGED <<server, workspace>>

\* Somebody deletes the workspace while a run in it is under way.
DeleteWorkspace ==
  /\ \E r \in Requests : OfWorkspace(r) /\ ~Busy(r, "answered")
  /\ workspace.there
  /\ workspace' = [workspace EXCEPT !.there = FALSE]
  /\ UNCHANGED <<server, members, req>>

-----------------------------------------------------------------------------
Handler(r) == Gate(r) \/ Admit(r) \/ LookUp(r)
Answer(r) ==
  AnswerStream(r) \/ AnswerWhole(r) \/ AnswerError(r) \/ AnswerUnkept(r) \/ AnswerLost(r)
Writer(r) == WriteSchema(r) \/ WriteRows(r) \/ WriteError(r) \/ Finish(r) \/ Abandon(r)
Client(r) == Receive(r) \/ BodyEnds(r)
World == (\E p \in DOMAIN Entry : Commit(p)) \/ DeleteWorkspace

-----------------------------------------------------------------------------
\* Under a root, an engine opens no file that lies outside it, unless the table
\* was added to after its files were checked: the plan that was checked is not the
\* one that is read (confine.rs:67-76, engine/delta.rs:181).
ServedIsConfined == \A r \in Requests : server.root /\ "out" \in req[r].opened => req[r].stale

\* A client that holds a complete answer to a query has every row of it, or is told
\* that the cap cut it.  A stream is complete when it ends, and ends without an
\* error only behind its end marker (api.rs:1098-1103, 1145-1149).
AnswerIsWhole ==
  \A r \in Requests : req[r].wish.endpoint = "query" /\ req[r].body = "whole" =>
    LET w == req[r].wish
    IN /\ req[r].got = LowerOf(req[r].total, Limit(w))
       /\ Streams(r) => req[r].marked
       /\ req[r].got < req[r].total => req[r].got = Limit(w) /\ (Streams(r) \/ req[r].capped)

\* A run that reached the engine is in the history of its workspace by the time the
\* client hears how it went, and one that did not is not, unless the store failed to
\* take its record: then the client has an error, and no result (api.rs:1497-1555).
RunsAreRecorded ==
  \A r \in Requests : req[r].wish.endpoint = "run" /\ req[r].at = "answered" =>
    /\ r \notin workspace.unkept => (r \in workspace.history <=> req[r].status \in {200, 400, 500})
    /\ r \in workspace.unkept => req[r].status # 200
=============================================================================
