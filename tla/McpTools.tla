------------------------------- MODULE McpTools -------------------------------
(***************************************************************************)
(* The tools of the MCP server, as an agent uses them on one table: it     *)
(* describes it, pages through its rows, profiles it, queries it, and      *)
(* lists what is beside it (src/src/mcp/tools.rs; the footer's statistics, *)
(* src/src/engine/local.rs: profile_from_footer).                          *)
(*                                                                         *)
(* A row, a column and an entry are known by the bytes of their JSON, the  *)
(* comma before it included.  A column of a file is known by what the      *)
(* footer has of each of its row groups and by what is in them.            *)
(***************************************************************************)
EXTENDS Integers, SequencesExt, FiniteSets, FiniteSetsExt

CONSTANTS
  Servers,      \* [root, sql, catalog]: --root is given, and what is built in
  ToolTables,   \* tables: [place, rows, columns, groups]
  Results,      \* what a query may return: {[names, rows]}, a row a sequence of cells
  PreviewRows,  \* PREVIEW_ROWS
  QueryRows,    \* QUERY_ROWS
  DefaultScan,  \* --default-scan
  MaxScan,      \* MAX_SCAN
  MaxResultRows,\* --max-rows
  MaxBytes,     \* --max-bytes
  NoteRoom,     \* NOTE_ROOM
  Frame,        \* bytes of a result without its items
  Counts,       \* what an agent may send as a number, or nothing
  Offsets       \* where it may read out of turn

VARIABLES
  toolServer, about,  \* the server and the table
  answered,       \* the answer to the last call
  paged,          \* the rows the agent has, by their places in the table
  over            \* it was told that there are no more

toolVars == <<toolServer, about, answered, paged, over>>

\* No number, and no value.
NoNumber == -1
Null == -2
NoResult ==
  [tool |-> "none", kind |-> "none", bytes |-> 0, items |-> <<>>, of |-> 0, truncated |-> FALSE,
   cells |-> <<>>]
Refusal(tool, kind) == [NoResult EXCEPT !.tool = tool, !.kind = kind]

\* A table has a column, and what is told of an item takes a byte at least.  What a
\* footer records of nulls is so.  No two columns of a result have one name.
ToolsAssumption ==
  /\ {MaxBytes, NoteRoom, Frame, PreviewRows, QueryRows} \subseteq Nat
  /\ MaxResultRows \in Nat \ {0} /\ Counts \subseteq Int /\ Offsets \subseteq Nat
  /\ \A t \in ToolTables :
       /\ t.rows \in Seq(Nat \ {0}) /\ t.width \in Nat
       /\ t.columns \in Seq(Seq([nulls : Nat, low : Int, high : Int, stats : BOOLEAN, recorded : Nat \cup {NoNumber}]))
       /\ t.columns # <<>>
       /\ \A c \in DOMAIN t.columns : \A g \in DOMAIN t.columns[c] :
            t.columns[c][g].recorded \in {NoNumber, t.columns[c][g].nulls}
  /\ \A r \in Results :
       /\ r.names \in Seq(STRING) /\ IsInjective(r.names)
       /\ r.rows \in Seq([DOMAIN r.names -> Int])

ToolsInit ==
  /\ toolServer \in Servers /\ about \in ToolTables
  /\ answered = NoResult /\ paged = <<>> /\ over = FALSE

-----------------------------------------------------------------------------
\* `names`, `offers`: only an offered tool can be called.
Offers(tool) ==
  CASE tool = "query" -> toolServer.sql
    [] tool = "catalog_ls" -> toolServer.catalog /\ ~toolServer.root
    [] OTHER -> TRUE

\* `locate` and confine::entry: a relative path is taken from the root, and with a
\* root no reference is read, nor anything outside of it.
Located(place) == place.kind # "reference" => place.kind = "relative" \/ place.in
Confined(place) == toolServer.root => place.kind # "reference" /\ Located(place) /\ place.in
\* `open`: a place is read, or refused.
Open(place) ==
  CASE ~Confined(place) -> "forbidden"
    [] Confined(place) /\ ~place.there -> "not_found"
    [] Confined(place) /\ place.there /\ toolServer.root /\ ~place.members -> "forbidden"
    [] OTHER -> "read"

\* `count`, and the bounds of its uses.
Given(n, default) == IF n = NoNumber THEN default ELSE n
Lesser(m, n) == IF m < n THEN m ELSE n
Clamp(n, low, high) == IF n < low THEN low ELSE Lesser(n, high)

Total(sizes) ==
  LET sum[n \in 0..Len(sizes)] == IF n = 0 THEN 0 ELSE sum[n - 1] + sizes[n]
  IN sum[Len(sizes)]
Room(rest) == MaxBytes - (rest + NoteRoom)

\* Mutant: an item that does not fit is left out.
FitSome(rest, sizes) == SelectSeq([i \in DOMAIN sizes |-> i], LAMBDA i : sizes[i] <= Room(rest))
\* `fit`: the places of the leading items that fit.
Fit(rest, sizes) ==
  LET fits(n) == Total(SubSeq(sizes, 1, n)) <= Room(rest)
  IN [i \in 1..CHOOSE n \in 0..Len(sizes) : fits(n) /\ (n < Len(sizes) => ~fits(n + 1)) |-> i]

\* A result: the items kept, and a note if some were left out, for their size or
\* because there are more than the tool returns.  One that is too large before any
\* of its items is refused.
Result(tool, rest, sizes, more) ==
  LET kept == Fit(rest, sizes)
      cut == Len(kept) < Len(sizes) \/ more
  IN IF Room(rest) < 0 THEN Refusal(tool, "too_large")
     ELSE [tool |-> tool, kind |-> "result", items |-> kept, of |-> Len(sizes), truncated |-> cut, cells |-> <<>>,
           bytes |-> rest + Total([i \in DOMAIN kept |-> sizes[kept[i]]]) + (IF cut THEN NoteRoom ELSE 0)]

\* `rows`: at most `cap` of the rows that were read, one more than is asked for.
RowsResult(tool, header, sizes, cap) ==
  Result(tool, Frame + header, SubSeq(sizes, 1, Lesser(cap, Len(sizes))), Len(sizes) > cap)

\* A cell of an answer is taken from its row by its column's name.  A row has one
\* cell of a name, the last that is not null.
CellsOf(names, row) ==
  [i \in DOMAIN names |->
     LET known == {j \in DOMAIN names : names[j] = names[i] /\ row[j] # Null}
     IN IF known = {} THEN Null ELSE row[Max(known)]]

-----------------------------------------------------------------------------
\* The footer of a file: for each column and each row group, what was recorded.

\* The library takes a count that a group with statistics does not record for 0.
GroupNulls(group) == IF group.stats THEN Given(group.recorded, 0) ELSE NoNumber
Kept(groups) == [g \in DOMAIN groups |-> groups[g].stats /\ groups[g].low # Null]

\* `profile_from_footer`, of one column: the sum of the counts, when there is one
\* for every group; the least and the greatest bound of the groups that have them.
FooterColumn(groups) ==
  LET complete == \A g \in DOMAIN groups : GroupNulls(groups[g]) # NoNumber
      known == {g \in DOMAIN groups : Kept(groups)[g]}
  IN [nulls |-> IF complete THEN Total([g \in DOMAIN groups |-> GroupNulls(groups[g])]) ELSE 0,
      min |-> IF known = {} THEN NoNumber ELSE Min({groups[g].low : g \in known}),
      max |-> IF known = {} THEN NoNumber ELSE Max({groups[g].high : g \in known}),
      any |-> complete \/ known # {}]

\* `describe`: a count of 0 is told only beside a bound.
Described(groups) ==
  LET of == FooterColumn(groups)
  IN [of EXCEPT !.nulls = IF of.min # NoNumber \/ of.max # NoNumber \/ @ > 0 THEN @ ELSE NoNumber]

\* A footer without statistics of any column is no profile.
HasFooter(table) == table.footer /\ \E c \in DOMAIN table.columns : FooterColumn(table.columns[c]).any
Statistics(table) ==
  IF HasFooter(table) THEN [c \in DOMAIN table.columns |-> Described(table.columns[c])]
  ELSE [c \in DOMAIN table.columns |-> [nulls |-> NoNumber, min |-> NoNumber, max |-> NoNumber, any |-> FALSE]]

-----------------------------------------------------------------------------
\* The calls.  An engine may fail, or notice that the call is past its deadline.
Failures == {"failed", "deadline"}

\* Columns are listed with the bytes of each.
ColumnSizes == [c \in DOMAIN about.columns |-> about.width]
Header(columns) == about.width * columns

CallTool(tool, answer) ==
  /\ Offers(tool)
  /\ answered' = IF Open(about.place) # "read" THEN Refusal(tool, Open(about.place)) ELSE answer
  /\ UNCHANGED <<toolServer, about>>

Failing(tool) ==
  /\ \E kind \in Failures : CallTool(tool, Refusal(tool, kind))
  /\ UNCHANGED <<paged, over>>

Describe ==
  /\ CallTool("describe", Result("describe", Frame, ColumnSizes, FALSE))
  /\ UNCHANGED <<paged, over>>

\* `profile`: of as many rows as are asked for, within a bound; of no rows, what the
\* footer has.
Profile(scan) ==
  LET scanned == Lesser(Given(scan, DefaultScan), Max({MaxScan, DefaultScan}))
  IN /\ CallTool("profile", IF scanned = 0 /\ ~HasFooter(about) THEN Refusal("profile", "failed")
                            ELSE Result("profile", Frame, ColumnSizes, FALSE))
     /\ UNCHANGED <<paged, over>>

\* One row more than asked for, to tell whether there are more.
Window(offset, rows) == [from |-> offset + 1, to |-> Lesser(offset + rows + 1, Len(about.rows))]

\* `preview`, of all columns or of the first.  The agent pages on from the rows it
\* has; what it reads out of turn, or of one column, it looks at and forgets.
Preview(rows, offset, all) ==
  LET cap == Clamp(Given(rows, PreviewRows), 1, MaxResultRows)
      window == Window(offset, cap)
      read == SubSeq(about.rows, window.from, window.to)
      sizes == [i \in DOMAIN read |-> IF all THEN read[i] ELSE 1]
      columns == IF all THEN Len(about.columns) ELSE 1
      answer == RowsResult("preview", Header(columns), sizes, cap)
  IN /\ CallTool("preview", answer)
     /\ IF answered' = answer /\ answer.kind = "result" /\ all /\ offset = Len(paged)
        THEN /\ paged' = paged \o [i \in DOMAIN answer.items |-> offset + answer.items[i]]
             /\ over' = ~answer.truncated
        ELSE UNCHANGED <<paged, over>>

\* `query`: of tables that are named, each within the root.
Query(rows, result, named) ==
  LET cap == Clamp(Given(rows, QueryRows), 1, MaxResultRows)
      read == SubSeq(result.rows, 1, Lesser(Len(result.rows), cap + 1))
      answer == RowsResult("query", Len(result.names), [i \in DOMAIN read |-> Len(result.names)], cap)
  IN /\ CallTool("query", IF ~named THEN Refusal("query", "invalid_arguments")
                          ELSE [answer EXCEPT !.cells =
                                  [i \in DOMAIN answer.items |-> [of |-> read[i], in |-> CellsOf(result.names, read[i])]]])
     /\ UNCHANGED <<paged, over>>

\* `list` and `catalog_ls`: entries of a place, or of a catalog that has more than
\* are read in one listing.
List(tool, entries, more) ==
  /\ Offers(tool)
  /\ answered' = IF tool = "list" /\ ~Confined(about.place) THEN Refusal(tool, "forbidden")
                 ELSE Result(tool, Frame, entries, more)
  /\ UNCHANGED <<toolServer, about, paged, over>>

\* An argument of the wrong type, or a required one that is blank.
Invalid(tool) ==
  /\ Offers(tool)
  /\ answered' = Refusal(tool, "invalid_arguments")
  /\ UNCHANGED <<toolServer, about, paged, over>>

ToolsNext ==
  \/ Describe
  \/ \E n \in Counts : Profile(n)
  \/ \E n \in Counts, offset \in Offsets \cup {Len(paged)}, all \in BOOLEAN : Preview(n, offset, all)
  \/ \E n \in Counts, result \in Results, named \in BOOLEAN : Query(n, result, named)
  \/ \E more \in BOOLEAN : List("list", about.rows, FALSE) \/ List("catalog_ls", about.rows, more)
  \/ \E tool \in {"list", "describe", "preview", "profile", "query", "catalog_ls"} : Failing(tool) \/ Invalid(tool)

ToolsSpec == ToolsInit /\ [][ToolsNext]_toolVars

-----------------------------------------------------------------------------
\* The rows an agent has paged are the table's from the first on, each once, and
\* when an answer is not `truncated` it has them all.  A page that brings nothing
\* stands before a row that is too large for any page.
PagesAreTheTable ==
  /\ paged = [i \in DOMAIN paged |-> i]
  /\ over => Len(paged) = Len(about.rows)
  /\ answered.tool = "preview" /\ answered.truncated /\ answered.items = <<>> =>
       \E i \in DOMAIN about.rows : about.rows[i] > Room(Frame + Header(Len(about.columns)))

\* A result is within the caps, rows and bytes, and one that was cut says so ("A
\* result holds at most {} rows and {} bytes; one that was cut says `truncated`",
\* tools.rs:172); all of it was read within the root.
WithinTheCaps ==
  answered.kind = "result" =>
    /\ answered.bytes <= MaxBytes
    /\ answered.tool \in {"preview", "query"} => Len(answered.items) <= MaxResultRows
    /\ Len(answered.items) < answered.of => answered.truncated
    /\ toolServer.root => answered.tool # "catalog_ls" /\ about.place.in
    /\ toolServer.root /\ answered.tool # "list" => about.place.members

\* A row of a query is what the engine answered, cell by cell, though it is taken
\* apart and put together by names.  (Where two columns of an answer have one name,
\* it is not: both show the last.)
CellsAreTheColumns ==
  \A i \in DOMAIN answered.cells : answered.cells[i].in = answered.cells[i].of

\* What is in a column: its nulls and the bounds of the rest, in every group.
Truth(groups) ==
  LET known == {g \in DOMAIN groups : groups[g].low # Null}
  IN [nulls |-> Total([g \in DOMAIN groups |-> groups[g].nulls]),
      min |-> IF known = {} THEN NoNumber ELSE Min({groups[g].low : g \in known}),
      max |-> IF known = {} THEN NoNumber ELSE Max({groups[g].high : g \in known})]
SaidOf(table, c, what) == Statistics(table)[c][what] \in {NoNumber, Truth(table.columns[c])[what]}

\* The statistics a description gives are those of the whole file, where every row
\* group that records any records them all; and of the rest, a count of nulls is
\* given only beside a bound (tools.rs:363-368), though all are called exact (395).
RecordsAll(groups) == \A g \in DOMAIN groups : groups[g].stats /\ groups[g].recorded # NoNumber
StatisticsAreExact ==
  answered.tool = "describe" /\ answered.kind = "result" =>
    \A c \in DOMAIN about.columns :
      RecordsAll(about.columns[c]) => \A what \in {"nulls", "min", "max"} : SaidOf(about, c, what)

ToolsAreTrue == PagesAreTheTable /\ WithinTheCaps /\ CellsAreTheColumns /\ StatisticsAreExact
=============================================================================
