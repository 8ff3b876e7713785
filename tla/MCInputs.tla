------------------------------ MODULE MCInputs ------------------------------
(* What is asked of the command line, of the tools and about what, by a    *)
(* grid, and of a server; and small files, and what is read of them.       *)
EXTENDS Integers, Sequences

\* cmd, -o, the extension of --out, --out, a terminal, --engine, --url, source.
Invocation(cmd, output, ext, out, terminal, engine, url, on) ==
  [cmd |-> cmd, output |-> output, ext |-> ext, out |-> out, terminal |-> terminal,
   engine |-> engine, url |-> url, on |-> on]
CliInvocations == {
  Invocation("head", "none", "parquet", "file", TRUE, "auto", FALSE, "file"),
  Invocation("query", "csv", "parquet", "file", FALSE, "auto", FALSE, "file"),
  Invocation("head", "arrow", "none", "none", TRUE, "auto", FALSE, "file"),
  Invocation("query", "json", "none", "dash", FALSE, "auto", TRUE, "database"),
  Invocation("query", "none", "csv", "dash", FALSE, "local", TRUE, "file"),
  Invocation("schema", "none", "parquet", "file", TRUE, "local", TRUE, "file"),
  Invocation("schema", "none", "txt", "file", TRUE, "local", TRUE, "file"),
  Invocation("catalog", "ndjson", "x", "none", TRUE, "remote", FALSE, "none"),
  Invocation("query", "arrows", "x", "none", FALSE, "sql", TRUE, "file"),
  Invocation("serve", "none", "x", "dash", FALSE, "auto", FALSE, "none"),
  Invocation("head", "tsv", "jsonl", "none", TRUE, "remote", FALSE, "database")}

\* A row group: its nulls, its bounds (-2 for none), whether the footer has
\* statistics of it, and the count of nulls in them (-1 for none).
Group(nulls, low, high, stats, recorded) ==
  [nulls |-> nulls, low |-> low, high |-> high, stats |-> stats, recorded |-> recorded]
Full == Group(1, 3, 5, TRUE, 1)
AllNull == Group(2, -2, -2, TRUE, 2)
Uncounted == Group(1, 1, 2, TRUE, -1)
Bare == Group(1, 2, 9, FALSE, -1)
NullBare == Group(1, -2, -2, TRUE, -1)
Recorded == {<<Full>>, <<Full, AllNull>>, <<AllNull>>, <<Full, Group(0, 1, 4, TRUE, 0)>>}
Unrecorded == {<<Uncounted>>, <<Full, Bare>>, <<NullBare>>}

Place(kind, in, members, there) == [kind |-> kind, in |-> in, members |-> members, there |-> there]
Home == Place("relative", TRUE, TRUE, TRUE)
Places == {Home, Place("absolute", TRUE, FALSE, TRUE), Place("absolute", FALSE, FALSE, TRUE),
           Place("reference", FALSE, FALSE, TRUE), Place("relative", TRUE, TRUE, FALSE)}

Table(place, rows, columns, width, footer) ==
  [place |-> place, rows |-> rows, columns |-> columns, width |-> width, footer |-> footer]
Two == <<<<Full>>, <<Full, AllNull>>>>
TablesOfTools ==
  {Table(Home, rows, Two, 2, TRUE) : rows \in {<<>>, <<1, 1, 1>>, <<1, 4, 2>>, <<3, 9, 1, 1>>}}
    \cup {Table(place, <<1, 1, 1>>, Two, 2, FALSE) : place \in Places}
    \cup {Table(Home, <<1>>, <<g, h>>, 2, TRUE) : g \in Recorded, h \in Recorded \cup Unrecorded}
    \cup {Table(Home, <<1, 1>>, <<<<Full>>, <<Full>>, <<Full>>, <<Full>>>>, 4, TRUE)}

ToolServers == {[root |-> TRUE, sql |-> TRUE, catalog |-> TRUE], [root |-> FALSE, sql |-> FALSE, catalog |-> TRUE]}
ToolResults == {[names |-> <<"a", "b">>, rows |-> <<<<1, -2>>, <<-2, 2>>, <<3, 4>>>>], [names |-> <<"a">>, rows |-> <<>>]}
ToolCounts == {-1, 0, 1, 9}

\* A query of a table, by a caller that bounds its rows or not.
Query(table, length, bounded) == [table |-> table, length |-> length, bounded |-> bounded]
GridQueries == {Query("t", 7, FALSE), Query("t", 3, TRUE), Query("u", 4, FALSE)}
GridRanges == {<<0, 1>>, <<3, 5>>, <<6, 8>>}

\* What may be at the other end: a server, another version of it, nothing, one that
\* compresses what it sends, one whose tables cannot be opened.
Peer(up, info, sql, open, body, declares) ==
  [up |-> up, info |-> info, sql |-> sql, open |-> open, body |-> body, declares |-> declares]
RemotePeers == {
  Peer(TRUE, "one", TRUE, TRUE, "plain", TRUE), Peer(TRUE, "two", FALSE, TRUE, "plain", FALSE),
  Peer(FALSE, "none", FALSE, FALSE, "plain", FALSE), Peer(TRUE, "one", TRUE, TRUE, "compressed", FALSE),
  Peer(TRUE, "one", TRUE, FALSE, "plain", FALSE)}
AskFor(method, sources, limit, bounded) ==
  [method |-> method, sources |-> sources, limit |-> limit, bounded |-> bounded]
From(path, format) == [path |-> path, format |-> format]
RemoteAsks == {
  AskFor("schema", <<From("t", "unresolved")>>, 0, TRUE), AskFor("preview", <<From("t", "csv")>>, 3, FALSE),
  AskFor("preview", <<From("database uri", "unresolved")>>, 1, FALSE),
  AskFor("query", <<From("t", "csv"), From("u", "unresolved")>>, 0, TRUE),
  AskFor("query_capped", <<From("t", "csv"), From("u", "database")>>, 1, FALSE),
  AskFor("query_capped", <<From("t", "csv")>>, 1, FALSE),
  AskFor("server", <<>>, 0, FALSE), AskFor("capabilities", <<>>, 0, TRUE)}

-----------------------------------------------------------------------------
(***************************************************************************)
(* Small Parquet files, and what is read of a directory of them; and small *)
(* files of other formats, and what is read of one of them.                *)
(***************************************************************************)
Field(name, type, nullable, fields) == [name |-> name, type |-> type, nullable |-> nullable, fields |-> fields]
Column(name, nullable) == Field(<<name>>, "int", nullable, <<>>)
User(nullable, geoNullable) ==
  Field(<<"u">>, "struct", nullable,
        <<Field(<<"geo">>, "struct", geoNullable, <<Column("lat", FALSE)>>), Column("n", TRUE)>>)

Dir(key, value) == [key |-> key, value |-> value]
File(dirs, columns, rows) == [hidden |-> FALSE, dirs |-> dirs, columns |-> columns, rows |-> rows]

Candidates ==
  {File(<<Dir(<<"k">>, "1")>>, <<Column("a", FALSE)>>, 1),
   File(<<Dir(<<>>, "x"), Dir(<<"k">>, "2"), Dir(<<"k">>, "3")>>, <<User(TRUE, FALSE), Column("a", FALSE)>>, 3),
   File(<<>>, <<User(TRUE, FALSE)>>, 2),
   File(<<>>, <<User(FALSE, TRUE), Field(<<"u", "n">>, "int", FALSE, <<>>)>>, 2),
   File(<<>>, <<Column("k", TRUE), Column("a", FALSE)>>, 2),
   File(<<>>, <<Field(<<"a">>, "text", TRUE, <<>>)>>, 1)}

Windows == {[offset |-> o, limit |-> l] : o \in {0, 2}, l \in {1, 3}}

Kinds(formats, codecs) == [format : formats, place : {"file", "object"}, codec : codecs]
OtherFiles == Kinds({"csv"}, {"none", "gzip", "unknown"}) \cup Kinds({"arrow", "stream"}, {"none"})

Content(rows, batches, bad) == [rows |-> rows, batches |-> batches, bad |-> bad]
FileContents == {Content(<<0, 0, 0, 1, 0>>, <<2, 3>>, 0), Content(<<0, 1, 0>>, <<1, 0, 2>>, 2), Content(<<>>, <<>>, 0)}

ReadOf(op, offset, limit) == [op |-> op, offset |-> offset, limit |-> limit]
Unlimited == -1
FileAsks == {ReadOf("schema", 0, Unlimited), ReadOf("count", 0, Unlimited), ReadOf("window", 0, Unlimited),
             ReadOf("window", 1, 2), ReadOf("window", 0, 1), ReadOf("window", 4, 2)}
=============================================================================
