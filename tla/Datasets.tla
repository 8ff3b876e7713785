------------------------------ MODULE Datasets ------------------------------
(***************************************************************************)
(* A directory of Parquet files read as one table (src/src/engine/local.rs *)
(* `dataset_layout`, `read_dataset_window`), and its struct columns as     *)
(* columns of their own (src/src/engine/flatten.rs, and `flatten_view` of  *)
(* src/src/engine/sql.rs).                                                 *)
(*                                                                         *)
(* The name of a column is the sequence of its parts between dots.  A cell *)
(* is where it was written, whether it is null, and a struct's cells,      *)
(* which Arrow keeps under a null struct too.                              *)
(***************************************************************************)
EXTENDS Naturals, Sequences, FiniteSets, SequencesExt

CONSTANTS
  Candidates, \* the files there may be: [hidden, dirs, columns, rows]
  Paths,     \* paths in the directory, in the order they sort
  Windows,    \* [offset, limit] that are asked for
  Flattens,   \* levels that are asked for, 0 for none
  MaxWrites   \* bound: files that are written or removed during a read

VARIABLES directory, writes, scan

datasetVars == <<directory, writes, scan>>

NoFile == [rows |-> 0, dirs |-> <<>>, columns |-> <<>>, hidden |-> TRUE]

-----------------------------------------------------------------------------
(* What is in the files.                                                   *)

RECURSIVE Cell(_, _, _, _)
Cell(field, at, row, depth) ==
  [at |-> Append(at, field.name), null |-> field.nullable /\ row = depth + 1,
   of |-> [i \in DOMAIN field.fields |-> Cell(field.fields[i], Append(at, field.name), row, depth + 1)]]

\* What can be seen of a cell.
RECURSIVE Shown(_)
Shown(cell) == IF cell.null THEN [at |-> <<>>, null |-> TRUE, of |-> <<>>]
               ELSE [cell EXCEPT !.of = [i \in DOMAIN cell.of |-> Shown(cell.of[i])]]

NullCell == [at |-> <<>>, null |-> TRUE, of |-> <<>>]
Stored(file, row) == [i \in DOMAIN file.columns |-> Cell(file.columns[i], <<<<row>>>>, row, 0)]

\* list_parquet_files: every file that is not hidden, sorted.
Listing == SetToSortSeq({p \in Paths : ~directory[p].hidden}, <)

\* hive_partitions: the directories that are named key=value, outermost first.
HivePartitions(file) == SelectSeq(file.dirs, LAMBDA d : d.key # <<>>)

Place(columns, name) == {i \in DOMAIN columns : columns[i].name = name}
SameType(a, b) == a.type = b.type /\ a.fields = b.fields

-----------------------------------------------------------------------------
(* The columns of the whole.                                               *)

NoLayout == [data |-> <<>>, keys |-> <<>>, rows |-> 0]

Conflicts(layout, file) == \E i \in DOMAIN layout.data, j \in DOMAIN file.columns :
  layout.data[i].name = file.columns[j].name /\ ~SameType(layout.data[i], file.columns[j])

\* One file more: its new columns and its new keys go to the end.
WithFile(layout, file) ==
  LET new  == SelectSeq(file.columns, LAMBDA c : Place(layout.data, c.name) = {})
      data == layout.data \o [i \in DOMAIN new |-> [new[i] EXCEPT !.nullable = TRUE]]
      keys == FoldLeft(LAMBDA ks, d : IF Place(data, d.key) # {} \/ Contains(ks, d.key) THEN ks ELSE Append(ks, d.key),
                       layout.keys, HivePartitions(file))
  IN [data |-> data, keys |-> keys, rows |-> layout.rows + file.rows]

KeyField(key) == [name |-> key, nullable |-> TRUE, type |-> "text", fields |-> <<>>]
Full(layout) == layout.data \o [i \in DOMAIN layout.keys |-> KeyField(layout.keys[i])]

\* Mutant: the columns of a file are taken in the order they are in.
UnifyInPlace(file, row, data) ==
  [i \in DOMAIN data |-> IF i \in DOMAIN file.columns THEN Stored(file, row)[i] ELSE NullCell]

\* unify_batch: each column by its name, null where the file has none.
UnifyBatch(file, row, data) ==
  [i \in DOMAIN data |->
     LET from == Place(file.columns, data[i].name)
     IN IF from = {} THEN NullCell ELSE Stored(file, row)[CHOOSE j \in from : \A k \in from : j <= k]]

\* append_partition_cols: the value in the path, the outermost, or null.
AppendPartitionCols(file, keys) ==
  [i \in DOMAIN keys |->
     LET from == SelectSeq(HivePartitions(file), LAMBDA d : d.key = keys[i])
     IN IF from = <<>> THEN NullCell ELSE [at |-> <<from[1].value>>, null |-> FALSE, of |-> <<>>]]

-----------------------------------------------------------------------------
(* Flattening.                                                             *)

Spreads(field, depth, levels) == field.type = "struct" /\ Len(field.fields) > 0 /\ depth < levels

\* walk: the leaves of a column, with the structs above each that may be null.
RECURSIVE Walk(_, _, _, _)
Walk(field, path, parents, levels) ==
  IF Spreads(field, Len(parents), levels)
  THEN FlattenSeq([i \in DOMAIN field.fields |->
         Walk(field.fields[i], Append(path, i), Append(parents, field.nullable), levels)])
  ELSE <<[path |-> path, parents |-> parents,
          nullable |-> field.nullable \/ Contains(parents, TRUE)]>>

\* leaves: refused if two have one name.
NameOf(columns, path) ==
  LET f[k \in 1 .. Len(path)] == IF k = 1 THEN columns[path[1]] ELSE f[k - 1].fields[path[k]]
  IN FlattenSeq([k \in DOMAIN path |-> f[k].name])
Leaves(columns, levels) == FlattenSeq([i \in DOMAIN columns |-> Walk(columns[i], <<i>>, <<>>, levels)])
Ambiguous(columns, levels) ==
  LET leaves == Leaves(columns, levels)
  IN \E i, j \in DOMAIN leaves : i # j /\ NameOf(columns, leaves[i].path) = NameOf(columns, leaves[j].path)

\* spread: the nulls of a struct are folded into its fields.
RECURSIVE Spread(_, _, _, _)
Spread(field, cell, depth, levels) ==
  IF ~Spreads(field, depth, levels) THEN <<cell>>
  ELSE FlattenSeq([i \in DOMAIN field.fields |->
         Spread(field.fields[i],
                IF cell.of = <<>> THEN NullCell
                ELSE [cell.of[i] EXCEPT !.null = cell.null \/ @], depth + 1, levels)])

FlattenRow(columns, row, levels) == FlattenSeq([i \in DOMAIN columns |-> Spread(columns[i], row[i], 0, levels)])

\* leaf_expr: the field as it is stored, or null if a struct above it that may
\* be null is.
LeafExpr(leaf, row) ==
  LET value[k \in 1 .. Len(leaf.path)] ==
        IF k = 1 THEN row[leaf.path[1]]
        ELSE IF value[k - 1].of = <<>> THEN NullCell ELSE value[k - 1].of[leaf.path[k]]
  IN IF \E k \in DOMAIN leaf.parents : leaf.parents[k] /\ value[k].null THEN NullCell ELSE value[Len(leaf.path)]

\* flatten_rows: nothing changes without a struct to spread.
HasStructs(columns) == \E i \in DOMAIN columns : Spreads(columns[i], 0, 1)
Flattened(s) == s.levels > 0 /\ HasStructs(Full(s.layout))

-----------------------------------------------------------------------------
(* The directory and one reader of it.                                     *)

Idle == [at |-> "idle"]

DatasetInit == directory \in [Paths -> Candidates \cup {NoFile}] /\ writes = 0 /\ scan = Idle

\* A file appears, goes, or is replaced.
Write(p, file) ==
  /\ writes < MaxWrites /\ scan.at \in {"layout", "rows"}
  /\ file # directory[p]
  /\ directory' = [directory EXCEPT ![p] = file] /\ writes' = writes + 1
  /\ UNCHANGED scan

Ended(s, end) == [s EXCEPT !.at = end]

StartRead(window, levels) ==
  /\ scan.at = "idle"
  /\ scan' = LET s == [at |-> "layout", window |-> window, levels |-> levels, left |-> Listing,
                       layout |-> NoLayout, skip |-> window.offset, remaining |-> window.limit,
                       rows |-> <<>>, laid |-> <<>>, opened |-> <<>>]
             IN IF Listing = <<>> THEN Ended(s, "empty") ELSE s
  /\ UNCHANGED <<directory, writes>>

\* dataset_layout, one file of its listing; after the last comes another
\* listing, for the rows.
LayFile ==
  /\ scan.at = "layout"
  /\ LET file == directory[Head(scan.left)]
         s == [scan EXCEPT !.layout = WithFile(@, file), !.laid = Append(@, file), !.left = Tail(@)]
     IN scan' = IF file = NoFile THEN Ended(scan, "gone")
                ELSE IF Conflicts(scan.layout, file) THEN Ended([s EXCEPT !.layout = scan.layout], "conflict")
                ELSE IF s.left = <<>> THEN [s EXCEPT !.at = "rows", !.left = Listing] ELSE s
  /\ UNCHANGED <<directory, writes>>

\* read_dataset_window, one file: its rows in the window, in the columns of
\* the whole.
ReadFile ==
  /\ scan.at = "rows" /\ scan.left # <<>> /\ scan.remaining > 0
  /\ LET file == directory[Head(scan.left)]
         got == [i \in 1 .. Min({file.rows - scan.skip, scan.remaining}) |->
                   UnifyBatch(file, scan.skip + i, scan.layout.data) \o AppendPartitionCols(file, scan.layout.keys)]
         s == [scan EXCEPT !.left = Tail(@), !.opened = Append(@, file)]
     IN scan' = IF file = NoFile THEN Ended(scan, "gone")
                ELSE IF scan.skip >= file.rows THEN [s EXCEPT !.skip = @ - file.rows]
                ELSE IF Conflicts(scan.layout, file) THEN Ended(s, "conflict")
                ELSE [s EXCEPT !.rows = @ \o got, !.remaining = @ - Len(got), !.skip = 0]
  /\ UNCHANGED <<directory, writes>>

\* What was read, flattened.
Answer ==
  /\ scan.at = "rows" /\ (scan.left = <<>> \/ scan.remaining = 0)
  /\ scan' = IF Flattened(scan) /\ Ambiguous(Full(scan.layout), scan.levels) THEN Ended(scan, "ambiguous") ELSE Ended(scan, "read")
  /\ UNCHANGED <<directory, writes>>

DatasetNext ==
  \/ \E p \in Paths, file \in Candidates \cup {NoFile} : Write(p, file)
  \/ \E window \in Windows, levels \in Flattens : StartRead(window, levels)
  \/ LayFile \/ ReadFile \/ Answer

-----------------------------------------------------------------------------
(* What a read promises.                                                   *)

Columns == Full(scan.layout)
Opened == FlattenSeq([i \in DOMAIN scan.opened |-> [r \in 1 .. scan.opened[i].rows |-> [file |-> scan.opened[i], row |-> r]]])
InWindow == SubSeq(Opened, scan.window.offset + 1, Min({scan.window.offset + scan.window.limit, Len(Opened)}))
Named(f, name) == \E c \in Range(f.columns) : c.name = name
KeyOf(f, name) == \E d \in Range(HivePartitions(f)) : d.key = name

\* The rows are those of the window, whatever files they are in.  A column of
\* a file that was laid out shows what the file has, and nothing is shown that
\* the file, or its path, does not say.
RowsAreTheirFiles ==
  scan.at = "read" =>
    /\ Len(scan.rows) = Len(InWindow)
    /\ \A i \in DOMAIN scan.rows :
         LET file == InWindow[i].file
             own  == Stored(file, InWindow[i].row)
             Is(j, c) == Columns[j].name = file.columns[c].name /\ Shown(scan.rows[i][j]) = Shown(own[c])
         IN /\ \A c \in DOMAIN own : Contains(scan.laid, file) => \E j \in DOMAIN Columns : Is(j, c)
            /\ \A j \in DOMAIN Columns :
                 \/ scan.rows[i][j].null
                 \/ \E c \in DOMAIN own : Is(j, c)
                 \/ \E d \in Range(HivePartitions(file)) :
                      d.key = Columns[j].name /\ scan.rows[i][j].at = <<d.value>>

\* The columns of the files have names of their own, and so have the keys of the
\* paths.  A key is dropped for a column that is known when it is met, but not for
\* one of a later file: then, and only then, both are there.
LateShadow(name) == \E i, j \in DOMAIN scan.laid :
  /\ i < j /\ Named(scan.laid[j], name)
  /\ KeyOf(scan.laid[i], name) /\ \A k \in 1 .. i : ~Named(scan.laid[k], name)
NamesAreDistinct ==
  scan.at = "read" => \A i, j \in DOMAIN Columns :
    i < j /\ Columns[i].name = Columns[j].name =>
      /\ i <= Len(scan.layout.data) /\ j > Len(scan.layout.data)
      /\ LateShadow(Columns[i].name)

\* A key that collides with a column of the data is dropped, "so partition names
\* never shadow data" (the comment on dataset_layout).
PartitionsNeverShadow ==
  scan.at = "read" => \A key \in Range(scan.layout.keys) : Place(scan.layout.data, key) = {}

\* The files agree on their columns, and a read fails for a cause.
FilesDisagree == \E f, g \in Range(scan.laid \o scan.opened) :
  \E c \in Range(f.columns), d \in Range(g.columns) : c.name = d.name /\ ~SameType(c, d)
DatasetFailsForCause ==
  /\ scan.at = "conflict" => FilesDisagree
  /\ scan.at \in {"rows", "read"} => ~\E f, g \in Range(scan.laid) :
       \E c \in Range(f.columns), d \in Range(g.columns) : c.name = d.name /\ ~SameType(c, d)
  /\ scan.at = "gone" => writes > 0
  /\ scan.at = "empty" => Listing = <<>>

\* Flattened, a row has in each column what was at its path, and null where a
\* struct on the way is null; the two engines show the same.
FlatteningIsOne ==
  scan.at = "read" /\ Flattened(scan) =>
    LET leaves == Leaves(Columns, scan.levels)
        OnPath(row, path) ==
          LET cell[k \in 1 .. Len(path)] == IF k = 1 THEN row[path[1]]
                                            ELSE IF cell[k - 1].null THEN NullCell ELSE cell[k - 1].of[path[k]]
          IN cell[Len(path)]
    IN \A r \in DOMAIN scan.rows :
         LET row == scan.rows[r]
             flat == FlattenRow(Columns, row, scan.levels)
         IN /\ Len(flat) = Len(leaves)
            /\ \A i \in DOMAIN leaves :
                 /\ Shown(flat[i]) = Shown(OnPath(row, leaves[i].path))
                 /\ Shown(LeafExpr(leaves[i], row)) = Shown(flat[i])
                 /\ flat[i].null => leaves[i].nullable

\* A directory of files reads as one table: the window's rows and no others,
\* each value in the column of its name, the same flattened by either engine,
\* and an error only for a cause.
DatasetIsItsFiles == RowsAreTheirFiles /\ NamesAreDistinct /\ DatasetFailsForCause /\ FlatteningIsOne
=============================================================================
