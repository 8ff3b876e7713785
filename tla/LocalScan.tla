------------------------------ MODULE LocalScan ------------------------------
(***************************************************************************)
(* The built-in reader over an Iceberg table (src/src/engine/local.rs):    *)
(* from a plan of IcebergTable to the answer of a window, a filtered scan, *)
(* statistics, a profile or a schema.  A data file is opened in one step,  *)
(* so that the table's clean-up can come between any two.                  *)
(*                                                                         *)
(* An ask is [op, offset, limit, cap, filters, sort].                      *)
(***************************************************************************)
EXTENDS IcebergTable

Windowed == {"window", "preview", "profile"}
Scanned == {"scan", "stats"}

Reading == call # Absent /\ call.at = "reading"
Answered == call # Absent /\ call.at = "answered"

\* manifest_rows
ManifestRows(f) == f.stats.counted /\ f.stats.rows > 0

\* What the manifest says of a planned file.
Described(entry) ==
  [file |-> entry.file, seq |-> entry.seq, deletes |-> entry.deletes, tuple |-> entry.tuple,
   stats |-> Statistics(table.kind, Cells(entry.file), entry.file.recorded),
   partition |-> IF entry.tuple = <<>> THEN Unknown ELSE entry.tuple[2]]

\* prune, which read_working_set asks for when there are filters.
Prune(plan, filters) ==
  IF filters = {} THEN plan.data
  ELSE SelectSeq(plan.data, LAMBDA e : \E file \in {Described(e)} : Kept(table.kind, filters, plan.transform, file))

Answer(rows, matched, known, bounded) ==
  call' = [call EXCEPT !.at = "answered",
             !.answer = [rows |-> rows, matched |-> matched, known |-> known, bounded |-> bounded]]

\* What is asked of the files: the window, or as many rows as the cap allows.
Begin ==
  /\ call # Absent /\ call.at = "planned"
  /\ LET a == call.ask
         kept == Prune(call.plan, a.filters)
     IN IF a.op = "schema" \/ (a.op = "profile" /\ ~call.counted)
        THEN IF call.plan.data = <<>> THEN Refuses ELSE call' = [call EXCEPT !.at = "counting"]
        ELSE IF a.op \in Windowed
        THEN call' = [call EXCEPT !.at = "reading",
                        !.scan = [todo |-> call.plan.data, skip |-> a.offset, left |-> a.limit,
                                  batches |-> <<>>, schema |-> FALSE]]
        ELSE IF kept = <<>> /\ call.plan.data # <<>>
        THEN IF FileThere(call.plan.data[1].file) THEN Answer(<<>>, 0, TRUE, FALSE) ELSE Fails
        ELSE call' = [call EXCEPT !.at = "reading", !.plan.data = kept,
                        !.scan = [todo |-> kept, skip |-> 0, left |-> a.cap,
                                  batches |-> <<>>, schema |-> FALSE]]
  /\ UNCHANGED tableVars

\* The rows of row groups, windowed by the Parquet reader.
GroupRows(f, chosen) ==
  LET start(i) == FoldLeft(LAMBDA n, g : n + Len(g), 0, SubSeq(f.groups, 1, i - 1))
      rows(i) == [k \in DOMAIN f.groups[i] |-> [row |-> <<f.id, start(i) + k>>, cell |-> f.groups[i][k]]]
  IN FlattenSeq([i \in DOMAIN f.groups |-> IF i \in chosen THEN rows(i) ELSE <<>>])

ReadOn(scan) == call' = [call EXCEPT !.scan = scan]
AllRead(scan) == call' = [call EXCEPT !.at = "read", !.scan = scan]

\* read_iceberg_plain, one file: the first is opened for the schema whatever the
\* window, a later one when it may have rows of it.
ReadPlain ==
  /\ Reading /\ ~HasDeletes(call.plan) /\ call.scan.todo # <<>>
  /\ LET s == call.scan
         e == Head(s.todo)
         f == e.file
         rest == [s EXCEPT !.todo = Tail(@)]
         opened == [rest EXCEPT !.schema = TRUE]
         chosen == IF call.ask.filters = {} THEN DOMAIN f.groups
                   ELSE SelectRowGroups(table.kind, call.ask.filters, f.groups, f.present, f.recorded)
         rows == Slice(GroupRows(f, chosen), s.skip, s.left)
     IN IF s.left = 0 /\ s.schema THEN AllRead(s)
        ELSE IF s.schema /\ ManifestRows(Described(e)) /\ s.skip >= Len(Cells(f))
        THEN ReadOn([rest EXCEPT !.skip = @ - Len(Cells(f))])
        ELSE IF ~FileThere(f) THEN Fails
        ELSE IF s.left = 0 THEN AllRead(opened)
        ELSE IF s.skip >= Len(Cells(f)) THEN ReadOn([opened EXCEPT !.skip = @ - Len(Cells(f))])
        ELSE ReadOn([opened EXCEPT !.skip = 0, !.left = @ - Len(rows), !.batches = Append(@, rows)])
  /\ UNCHANGED tableVars

\* drop_positions and apply_equality_deletes, to the rows of a file.
Surviving(plan, e, rows) ==
  LET gone == Reaching(plan, e)
  IN SelectSeq(rows, LAMBDA r : r.row[2] \notin e.deletes /\ ~\E d \in gone : d.cell = r.cell)

\* One file of read_iceberg_with_deletes, a row group at a time until the rows read
\* cover the window.
ReadCovering(plan, e, batches, wanted) ==
  LET step(acc, i) ==
        IF acc.done THEN acc
        ELSE LET live == Surviving(plan, e, GroupRows(e.file, {i}))
                 got == acc.got + Len(live)
             IN [got |-> got, done |-> got >= wanted,
                 out |-> IF live = <<>> THEN acc.out ELSE Append(acc.out, live)]
  IN FoldLeft(step, [got |-> Len(FlattenSeq(batches)), done |-> FALSE, out |-> batches],
              [i \in DOMAIN e.file.groups |-> i]).out

ReadDeleting ==
  /\ Reading /\ HasDeletes(call.plan) /\ call.scan.todo # <<>>
  /\ LET s == call.scan
         e == Head(s.todo)
         got == Len(FlattenSeq(s.batches))
     IN IF got >= s.skip + s.left /\ s.schema THEN AllRead(s)
        ELSE IF ~FileThere(e.file) THEN Fails
        ELSE IF got >= s.skip + s.left THEN AllRead([s EXCEPT !.schema = TRUE])
        ELSE ReadOn([s EXCEPT !.todo = Tail(@), !.schema = TRUE,
                              !.batches = ReadCovering(call.plan, e, s.batches, s.skip + s.left)])
  /\ UNCHANGED tableVars

\* A table with no data files has no schema to read.
NothingLeft ==
  /\ Reading /\ call.scan.todo = <<>>
  /\ IF call.scan.schema THEN AllRead(call.scan) ELSE Refuses
  /\ UNCHANGED tableVars

-----------------------------------------------------------------------------
(***************************************************************************)
(* Answers.                                                                *)
(***************************************************************************)

\* What was read, windowed when the table has deletes.
Batches ==
  IF HasDeletes(call.plan)
  THEN WindowBatches(call.scan.batches, IF call.ask.op \in Windowed THEN call.ask.offset ELSE 0,
                     IF call.ask.op \in Windowed THEN call.ask.limit ELSE call.ask.cap)
  ELSE call.scan.batches

\* iceberg_count: nothing with equality deletes; a file is opened when its
\* manifest does not count it.
Uncounted == {e \in Range(call.plan.data) : ~ManifestRows(Described(e))}
IcebergCount ==
  LET live(e) == LET n == Len(Cells(e.file)) - Cardinality(e.deletes) IN IF n > 0 THEN n ELSE 0
  IN IF call.plan.equality # {} THEN [known |-> FALSE, rows |-> 0]
     ELSE [known |-> TRUE, rows |-> FoldLeft(LAMBDA n, e : n + live(e), 0, call.plan.data)]

\* window_and_count, and the count of a schema or of a profile; a profile then
\* plans again for its rows.
CountRows ==
  /\ call # Absent
  /\ call.at = "counting" \/ (call.at = "read" /\ call.ask.op = "window")
  /\ LET missing == \E e \in Uncounted : ~FileThere(e.file)
         n == IcebergCount
         rows == FlattenSeq(Batches)
     IN IF (call.plan.equality = {} /\ missing)
           \/ (call.at = "counting" /\ ~FileThere(call.plan.data[1].file))
        THEN Fails
        ELSE IF call.at = "counting" /\ call.ask.op = "profile"
        THEN call' = [call EXCEPT !.at = "hint", !.counted = TRUE, !.plan = EmptyPlan,
                                  !.answer.matched = n.rows, !.answer.known = n.known]
        ELSE IF call.at = "counting" THEN Answer(<<>>, n.rows, n.known, FALSE)
        ELSE Answer(rows, IF n.known THEN n.rows ELSE call.ask.offset + Len(rows), n.known, FALSE)
  /\ UNCHANGED tableVars

\* preview, and the rows of a profile.
AnswerRows ==
  /\ call # Absent /\ call.at = "read" /\ call.ask.op \in {"preview", "profile"}
  /\ Answer(FlattenSeq(TruncateBatches(Batches, call.ask.limit)),
            call.answer.matched, call.answer.known, FALSE)
  /\ UNCHANGED tableVars

\* scan: one that reads the cap's worth of rows is bounded.
AnswerScan ==
  /\ call # Absent /\ call.at = "read" /\ call.ask.op = "scan"
  /\ LET done == ApplyScan(table.kind, Batches, call.ask)
         bounded == Len(FlattenSeq(Batches)) >= call.ask.cap
     IN Answer(done.rows, done.matched, ~bounded, bounded)
  /\ UNCHANGED tableVars

\* stats: the rows that pass, to profile_columns.
AnswerStats ==
  /\ call # Absent /\ call.at = "read" /\ call.ask.op = "stats"
  /\ LET passing == FilterBatches(table.kind, Batches, call.ask.filters)
     IN Answer(passing, Len(passing), FALSE, Len(FlattenSeq(Batches)) >= call.ask.cap)
  /\ UNCHANGED tableVars

ReadStep == \/ PlanSteps \/ Begin \/ ReadPlain \/ ReadDeleting \/ NothingLeft
            \/ CountRows \/ AnswerRows \/ AnswerScan \/ AnswerStats
ScanInit == TableInit
ScanNext == Write \/ (\E a \in Asks[table.kind] : StartRead(a)) \/ ReadStep
ScanSpec == ScanInit /\ [][ScanNext]_icebergVars

-----------------------------------------------------------------------------
(***************************************************************************)
(* Properties.                                                             *)
(***************************************************************************)
IcebergTypeOK ==
  /\ head.snapshot \in 0..Len(history) /\ head \in meta /\ expired \subseteq DOMAIN history
  /\ Len(history) <= table.grows /\ hint # NoFile => table.hinted
  /\ call # Absent =>
       /\ call.at \in {"hint", "named", "list", "compare", "open", "manifests", "planned",
                       "reading", "read", "counting", "answered", "refused", "failed"}
       /\ call.ask \in Asks[table.kind]
       /\ call.chosen.snapshot \in 0..Len(history)

\* The rows of the snapshot a call read, in the order of its plan.
LiveRows ==
  SelectSeq(FlattenSeq([i \in DOMAIN call.full |-> RowsOf(call.full[i].file)]),
            LAMBDA r : r \in Snapshot(call.chosen.snapshot).live)

\* Whether deletes by value can be told apart by partition: the table has had one
\* partitioning, and no partition is unknown.  Where they cannot, too many rows
\* are left out, never too few.
Scoped ==
  \/ call.plan.equality = {}
  \/ /\ call.plan.single
     /\ \A i \in DOMAIN call.full : \A j \in DOMAIN call.full[i].tuple :
          call.full[i].tuple[j].known

\* The snapshot that was read was the table's when the call started or later: the
\* hint's at least, where one is written, and never one that lost its race
\* (locate_metadata).
SnapshotIsTheTables ==
  /\ ~Snapshot(call.chosen.snapshot).lost
  /\ call.chosen.version >= (IF table.hinted THEN call.hinted.version ELSE call.since.version)

ReadIsOfTheTable == Answered => SnapshotIsTheTables

\* A read is of one snapshot, which was the table's: its rows are the window of
\* the rows that snapshot has, in the order of its plan, whatever commits and
\* clean-up do meanwhile; rows deleted by position or by value never come back;
\* and a count that is given is the snapshot's.
ReadIsOneSnapshot ==
  /\ ReadIsOfTheTable
  /\ Answered =>
       IF Scoped
       THEN /\ call.ask.op \in Windowed =>
                 call.answer.rows = Slice(LiveRows, call.ask.offset, call.ask.limit)
            /\ call.ask.op \in {"window", "schema"} /\ call.answer.known =>
                 call.answer.matched = Len(LiveRows)
       ELSE Range(call.answer.rows) \subseteq Range(LiveRows)

\* The texts a and b of a column are in the order of what they say.
PrintInOrder(kind, a, b) ==
  /\ PrintedBefore(kind, a, b) = CellBefore(kind, a, b)
  /\ PrintedBefore(kind, b, a) = CellBefore(kind, b, a)

\* What is asked for, and the cells of the files planned, print as they order.
\* Instants in UTC do not always: 10.5Z is before 10Z as a text.
BoundsPrintInOrder ==
  table.kind = "stamptz" =>
    LET cells == UNION {Range(Cells(e.file)) : e \in Range(call.full)} \ {SqlNull}
    IN \A a, b \in cells \cup {f.value : f \in call.ask.filters} : PrintInOrder(table.kind, a, b)

\* A filtered scan that is not bounded has every row that passes, of the snapshot
\* read: files, partitions and row groups are pruned only when none of their rows
\* pass, and files are read to the end (prune, select_row_groups, apply_scan).
\* A bounded one has rows that pass and no others.  Of a table whose partitioning
\* has changed this is not so, nor where instants in UTC do not print as they
\* order: see PartitionsProveNoMatch and BoundsProveNoMatch.
ScanIsComplete ==
  Answered /\ call.ask.op \in Scanned /\ Scoped
           /\ (call.ask.filters = {} \/ (call.plan.single /\ BoundsPrintInOrder)) =>
    LET all == ApplyScan(table.kind, <<LiveRows>>, call.ask)
        passing == FilterBatches(table.kind, <<LiveRows>>, call.ask.filters)
    IN IF call.answer.bounded THEN Range(call.answer.rows) \subseteq Range(passing)
       ELSE IF call.ask.op = "stats" THEN call.answer.rows = passing
       ELSE call.answer.rows = all.rows /\ call.answer.matched = all.matched

\* The cells, of all the files, that a column of this kind can have.  An instant
\* has two digits, a fraction if it is not whole, and a Z in UTC.
CellsOf(kind) ==
  LET all == UNION {Range(Cells(g)) : g \in MoreFiles \cup {t.file : t \in FirstTables}}
      instant(t) == Len(t) >= 2 /\ Digits(SubSeq(t, 1, 2)) /\ (Len(t) > 2 => t[3] \in {Dot, Zed})
      can(c) == CASE kind = "text" -> TRUE
                  [] kind \in IntKinds -> ParseInt(c) # NotANumber
                  [] kind \in RealKinds -> ParseFloat(c) # NotANumber
                  [] kind \in Instants -> instant(c) /\ (Last(c) = Zed) = (kind = "stamptz")
  IN {SqlNull} \cup {c \in all \ {SqlNull} : can(c)}

\* A filter means the same to the Arrow kernels, to DataFusion and to a database:
\* a row passes in one when it passes in the others that run the query
\* (column_mask, and build_where of sql.rs and of database.rs).  Of instants in
\* UTC this is so where the text is in the order of the instant.
FiltersAgree ==
  call # Absent /\ call.at = "hint" =>
    \A f \in call.ask.filters : \A c \in CellsOf(table.kind) :
        LET passes == ColumnMask(table.kind, c, f.op, f.value)
        IN /\ Coerces(table.kind, f.op, f.value) /\ (table.kind = "stamptz" => PrintInOrder("stamptz", c, f.value))
                => SqlWhere(table.kind, c, f.op, f.value) = passes
           /\ DatabaseWhere(table.kind, c, f.op, f.value) = passes

-----------------------------------------------------------------------------
(***************************************************************************)
(* What iceberg.rs says of its pruning: "a file is dropped ONLY when its   *)
(* statistics PROVE it contains zero matching rows" (iceberg.rs:1242-1246).*)
(***************************************************************************)

\* No row of the file passes the filter.
NoMatch(e, f) == \A c \in Range(Cells(e.file)) : ~ColumnMask(table.kind, c, f.op, f.value)

\* Violated: a file that its partition drops has no row that passes.  It may, once
\* the table's partitioning has changed (partition_might_match).
PartitionsProveNoMatch ==
  call # Absent /\ call.at = "planned" =>
    \A e \in Range(call.plan.data), f \in call.ask.filters :
      PartitionMightMatch(call.plan.transform, table.kind, f, Described(e).partition) \/ NoMatch(e, f)

\* Violated: a file that its bounds drop has no row that passes.  It may, in a
\* column of instants in UTC (file_might_match).
BoundsProveNoMatch ==
  call # Absent /\ call.at = "planned" =>
    \A e \in Range(call.plan.data), f \in call.ask.filters :
      FileMightMatch(table.kind, f, Described(e).stats) \/ NoMatch(e, f)
=============================================================================
