----------------------------- MODULE RemoteEngine -----------------------------
(***************************************************************************)
(* The engine that sends its reads to a server (src/src/engine/remote.rs), *)
(* and what it makes of an answer (src/src/render.rs: from_arrow_ipc).     *)
(* Its callers share one engine; the server may be restarted, be down, or  *)
(* not be a Lakeleto server at all.                                        *)
(*                                                                         *)
(* A message of a response takes one byte: its frame, then each row.       *)
(***************************************************************************)
EXTENDS Integers, Sequences, FiniteSets

CONSTANTS
  Callers,
  Peers,       \* what may answer: [up, info, sql, engines, open, body, declares]
  Asks,        \* [method, sources, limit, bounded]: bounded by a deadline, or not
  TableRows,   \* the rows of every table
  DefaultCap, QueryCap,  \* the server's row limits
  Cap,         \* MAX_RESPONSE_BYTES
  MaxRestarts, MaxCalls

VARIABLES
  peer,        \* the server
  kept,        \* RemoteEngine.server: what it said about itself, or nothing
  calls,       \* what each caller is doing
  wire,        \* what has been sent: [path, format]
  restarts, made

remoteVars == <<peer, kept, calls, wire, restarts, made>>

Untold == "untold"
NoReply == [status |-> "none", body |-> "none", rows |-> 0, size |-> 0, declares |-> FALSE, info |-> Untold]
NoCall == [pc |-> "idle", ask |-> [method |-> "none", sources |-> <<>>, limit |-> 0, bounded |-> FALSE],
         reply |-> NoReply, late |-> FALSE, stopped |-> FALSE, result |-> "none", rows |-> 0, info |-> Untold]

RemoteInit ==
  /\ peer \in Peers /\ kept = Untold /\ calls = [c \in Callers |-> NoCall]
  /\ wire = {} /\ restarts = 0 /\ made = 0

Least(m, n) == IF m < n THEN m ELSE n
End(c, result) == calls' = [calls EXCEPT ![c].pc = "done", ![c].result = result]

\* `server` and `capabilities` ask once, and keep what is answered: `capabilities` with a
\* deadline of its own and nobody to stop it, and tells any failure as "unknown".
AsksInfo(ask) == ask.method \in {"server", "capabilities"}

\* A limit is a number of rows or bytes; only a read is about sources.
Source == [path : STRING, format : STRING]
RemoteAsk == [method : STRING, sources : Seq(Source), limit : Nat, bounded : BOOLEAN]
ASSUME RemoteAssumption ==
  /\ {TableRows, DefaultCap, QueryCap, Cap, MaxRestarts, MaxCalls} \subseteq Nat
  /\ \A ask \in Asks : ask \in RemoteAsk /\ (AsksInfo(ask) => ask.sources = <<>>)
  /\ \A p \in Peers : {p.up, p.sql, p.open, p.declares} \subseteq BOOLEAN

-----------------------------------------------------------------------------
\* `refuse_database_source`: its path would tell the account to the server.
RefuseDatabase(source) == source.format = "database" \/ source.path = "database uri"

\* `wire_params`: a format is told if one was resolved, and is an instruction.
Params(source) == [path |-> source.path, format |-> source.format]

BeginCall(c, ask) ==
  /\ calls[c].pc \in {"idle", "done"} /\ made < MaxCalls /\ made' = made + 1
  /\ LET j == [NoCall EXCEPT !.ask = ask]
     IN calls' = [calls EXCEPT ![c] =
          CASE AsksInfo(ask) /\ kept # Untold -> [j EXCEPT !.pc = "done", !.result = "info", !.info = kept]
            [] ~AsksInfo(ask) /\ (\E i \in DOMAIN ask.sources : RefuseDatabase(ask.sources[i])) ->
                 [j EXCEPT !.pc = "done", !.result = "forbidden"]
            [] OTHER -> [j EXCEPT !.pc = "send"]]
  /\ UNCHANGED <<peer, kept, wire, restarts>>

\* Time passes, or the caller changes its mind.
DeadlinePasses(c) ==
  /\ calls[c].pc \in {"send", "wait", "body"} /\ calls[c].ask.bounded /\ ~calls[c].late
  /\ calls' = [calls EXCEPT ![c].late = TRUE]
  /\ UNCHANGED <<peer, kept, wire, restarts, made>>
Stop(c) ==
  /\ calls[c].pc \in {"send", "wait", "body"} /\ ~calls[c].stopped /\ calls[c].ask.method # "capabilities"
  /\ calls' = [calls EXCEPT ![c].stopped = TRUE]
  /\ UNCHANGED <<peer, kept, wire, restarts, made>>

\* `send`, to the connection: nothing is sent for a call that is over.
SendAsk(c) ==
  /\ calls[c].pc = "send"
  /\ LET over == calls[c].late \/ calls[c].stopped
         sources == calls[c].ask.sources
     IN /\ IF over THEN End(c, "cancelled") ELSE calls' = [calls EXCEPT ![c].pc = "wait"]
        /\ wire' = IF over THEN wire ELSE wire \cup {Params(sources[i]) : i \in DOMAIN sources}
  /\ UNCHANGED <<peer, kept, restarts, made>>

-----------------------------------------------------------------------------
\* The server: as many rows as are asked for, within its own limits.
Limit(ask) ==
  CASE ask.method = "query" -> DefaultCap
    [] ask.method = "query_capped" -> Least(ask.limit, QueryCap)
    [] ask.method = "preview" -> Least(ask.limit, QueryCap)
    [] OTHER -> 0
Served(ask) == Least(Limit(ask), TableRows)
ToldOf(ask) == IF ask.method \in {"preview", "query", "query_capped"} THEN "arrow" ELSE "json"
Refuses(ask) == ~peer.open \/ (ask.method \in {"query", "query_capped"} /\ ~peer.sql)
ReplyOf(ask) ==
  IF Refuses(ask)
  THEN [NoReply EXCEPT !.status = "refused", !.body = "message", !.size = 1, !.declares = TRUE]
  ELSE [status |-> "ok", body |-> IF peer.body = "plain" THEN ToldOf(ask) ELSE peer.body, rows |-> Served(ask),
        size |-> 1 + Served(ask), declares |-> peer.declares, info |-> peer.info]

AnswerCall(c) ==
  /\ calls[c].pc = "wait" /\ peer.up
  /\ calls' = [calls EXCEPT ![c].pc = "body", ![c].reply = ReplyOf(calls[c].ask)]
  /\ UNCHANGED <<peer, kept, wire, restarts, made>>

\* No answer: the server is down, or the deadline passes first, which is then why.
NoAnswer(c) ==
  /\ calls[c].pc = "wait"
  /\ \/ ~peer.up /\ End(c, "transport")
     \/ calls[c].late /\ End(c, "cancelled")
  /\ UNCHANGED <<peer, kept, wire, restarts, made>>

Restart(other) ==
  /\ restarts < MaxRestarts /\ restarts' = restarts + 1
  /\ peer' = other /\ UNCHANGED <<kept, calls, wire, made>>

-----------------------------------------------------------------------------
\* Mutant: as much as may be kept is read.
ReadToCap(size) == Least(size, Cap)
\* One byte past the cap is read, to tell what is at the cap from what is over it.
ReadBody(size) == Least(size, Cap + 1)

\* `from_arrow_ipc`: the rows of the messages that are there, a body that ends between
\* two of them being as good as whole.  Compressed bodies are refused before they are
\* decoded, and a decoder that panics is an error.
Decode(reply, bytes) ==
  IF reply.body = "arrow" THEN [result |-> "rows", rows |-> bytes - 1] ELSE [result |-> "undecodable", rows |-> 0]
\* A document is parsed whole, or not at all.
Parse(reply, bytes) ==
  IF reply.body = "json" /\ bytes = reply.size THEN [result |-> "document", rows |-> 0]
  ELSE [result |-> "undecodable", rows |-> 0]

\* `send`, from the response: its length as declared, then its bytes.  What the server
\* says of a failure is told as it says it.
ReceiveBody(c) ==
  /\ calls[c].pc = "body"
  /\ LET reply == calls[c].reply
         bytes == ReadBody(reply.size)
         over == (reply.declares /\ reply.size > Cap) \/ bytes > Cap
         read == IF ToldOf(calls[c].ask) = "arrow" THEN Decode(reply, bytes) ELSE Parse(reply, bytes)
         info == AsksInfo(calls[c].ask) /\ read.result = "document"
     IN /\ calls' = [calls EXCEPT ![c].pc = "done",
             ![c].result = CASE over -> "too_large"
                             [] ~over /\ reply.status = "refused" -> "server's message"
                             [] ~over /\ reply.status = "ok" /\ info -> "info"
                             [] OTHER -> read.result,
             ![c].rows = IF over \/ reply.status = "refused" THEN 0 ELSE read.rows,
             ![c].info = IF ~over /\ reply.status = "ok" /\ info THEN reply.info ELSE Untold]
        /\ kept' = IF ~over /\ reply.status = "ok" /\ info THEN reply.info ELSE kept
  /\ UNCHANGED <<peer, wire, restarts, made>>

\* The connection breaks, or the deadline passes, while the body is read.
BodyBreaks(c) ==
  /\ calls[c].pc = "body" /\ (calls[c].late \/ ~peer.up)
  /\ End(c, "transport") /\ UNCHANGED <<peer, kept, wire, restarts, made>>

\* Nobody asks any more.
RemoteRest ==
  /\ made = MaxCalls /\ \A c \in Callers : calls[c].pc \in {"idle", "done"}
  /\ UNCHANGED remoteVars

RemoteNext ==
  \/ RemoteRest
  \/ \E c \in Callers :
       \/ \E ask \in Asks : BeginCall(c, ask)
       \/ DeadlinePasses(c) \/ Stop(c) \/ SendAsk(c) \/ AnswerCall(c) \/ NoAnswer(c) \/ ReceiveBody(c) \/ BodyBreaks(c)
  \/ \E other \in Peers : Restart(other)

RemoteSpec == RemoteInit /\ [][RemoteNext]_remoteVars

-----------------------------------------------------------------------------
\* `server_listing`: a server that names no engines has the one that reads.
Infos == {p.info : p \in Peers}

\* What the engine returns is the server's.  The rows are all that it serves for what was
\* asked, and no more than were asked for; a response over the cap is never taken for a
\* shorter one.  A failure is put down to what caused it, and a call is cancelled only if
\* its caller or its deadline said so.  No database's account is sent, and no format that
\* was not resolved; what is kept of the server is what a server has said.
RemoteIsTheServers ==
  /\ \A c \in Callers : calls[c].pc = "done" =>
       LET j == calls[c]
       IN /\ j.result = "rows" => j.rows = Served(j.ask) /\ 1 + j.rows <= Cap
          /\ j.result = "rows" /\ j.ask.method # "query" => j.rows <= j.ask.limit
          /\ j.result = "too_large" => j.reply.size > Cap
          /\ j.result = "server's message" => j.reply.status = "refused"
          /\ j.result = "undecodable" => j.reply.body # ToldOf(j.ask)
          /\ j.result = "cancelled" => j.late \/ j.stopped
          /\ j.result = "transport" => j.late \/ \E p \in Peers : ~p.up
          /\ j.result = "info" => j.info \in Infos
  /\ \A sent \in wire : sent.path # "database uri" /\ sent.format # "database"
  /\ kept \in Infos \cup {Untold}
=============================================================================
