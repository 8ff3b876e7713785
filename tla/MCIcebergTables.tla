--------------------------- MODULE MCIcebergTables ---------------------------
(***************************************************************************)
(* Small Iceberg tables, and what is asked of them: a table of each kind   *)
(* of column, two of instants in UTC, and for integers one that is         *)
(* partitioned, one written without hints and one whose rows have been     *)
(* updated.                                                                *)
(***************************************************************************)
EXTENDS ColumnFilter

T(n) == <<48 + n>>
Z(t) == t \o <<Zed>>
DataFile(id, groups, recorded, format) ==
  [id |-> id, region |-> 1, groups |-> groups, recorded |-> recorded, present |-> TRUE, format |-> format]
FirstTable(kind, grows, hinted, transform, last, f, upserts) ==
  [kind |-> kind, grows |-> grows, hinted |-> hinted, transform |-> transform, last |-> last, file |-> f,
   upserts |-> upserts]

Odd == DataFile("odd", <<<<T(1), T(3)>>, <<T(3), SqlNull>>>>, "all", "parquet")
Even == DataFile("even", <<<<T(2)>>>>, "none", "parquet")
Orc == DataFile("orc", <<<<T(3)>>>>, "all", "orc")
NamesFile == DataFile("names", <<<<<<65, Percent>>, SqlNull>>, <<<<66, Hash>>, <<66, 67>>>>>>, "short", "parquet")
Floats == DataFile("floats", <<<<T(1), NaN>>>>, "all", "parquet")
Times == DataFile("times", <<<<<<49, 48>>, <<49, 53>>>>>>, "all", "parquet")
Zulu == DataFile("zulu", <<<<Z(<<49, 48>>), Z(<<49, 53>>)>>>>, "all", "parquet")
Zoned == DataFile("zoned", <<<<Z(<<49, 48>>), Z(<<49, 48, Dot, 53>>)>>>>, "all", "parquet")
Nulls == DataFile("nulls", <<<<SqlNull, SqlNull>>>>, "all", "parquet")

MCFirstTables ==
  {FirstTable("int", 2, FALSE, "none", "none", Odd, {}),
   FirstTable("int", 2, TRUE, "bucket2", "bucket3", Odd, {}),
   FirstTable("int", 3, FALSE, "none", "none", Odd, {Even}),
   FirstTable("int", 1, FALSE, "none", "none", Nulls, {}),
   FirstTable("text", 1, FALSE, "none", "none", NamesFile, {}),
   FirstTable("float", 1, FALSE, "none", "none", Floats, {}),
   FirstTable("stamp", 1, FALSE, "day", "day", Times, {}),
   FirstTable("stamptz", 1, FALSE, "day", "day", Zulu, {}),
   FirstTable("stamptz", 1, FALSE, "day", "day", Zoned, {})}
MCMoreFiles == {Even, Orc}
MCDeletedAt == {2}
MCDeleted == {T(3)}

Ask(op, offset, limit, cap, sort, filters) ==
  [op |-> op, offset |-> offset, limit |-> limit, cap |-> cap, sort |-> sort, filters |-> filters]
Filter(op, value) == [op |-> op, value |-> value]
Where(op, v) == Ask("scan", 0, 9, 9, "none", {Filter(op, v)})
MCAsks ==
  [int |-> {Ask("window", 1, 2, 0, "none", {}), Ask("window", 3, 2, 0, "none", {}),
            Ask("profile", 0, 3, 0, "none", {}), Ask("schema", 0, 0, 0, "none", {}),
            Ask("scan", 0, 9, 2, "none", {Filter("ne", T(1))}),
            Ask("stats", 0, 0, 9, "none", {Filter("isnull", <<>>)}),
            Ask("scan", 1, 1, 9, "ascending", {Filter("ge", T(2))}), Where("eq", T(3))},
   text |-> {Where(op, v) : op \in {"contains", "endswith", "in", "eq", "notcontains"},
                            v \in {<<Percent>>, <<Hash>>, <<66, Hash>>, <<66, Comma, Space, 66, 67>>}},
   float |-> {Where(op, v) : op \in {"eq", "ne", "lt", "ge"}, v \in {T(2), NaN, <<49, Dot, 53>>}},
   stamp |-> {Where(op, v) : op \in {"eq", "gt", "le"}, v \in {<<49, 53>>, <<50, 48>>}}
              \cup {Ask("scan", 0, 9, 9, "descending", {}), Ask("preview", 0, 1, 0, "none", {})},
   stamptz |-> {Where(op, Z(v)) : op \in {"eq", "gt", "le"}, v \in {<<49, 48>>, <<49, 48, Dot, 53>>}}
                \cup {Ask("scan", 0, 9, 9, "ascending", {})}]
=============================================================================
