----------------------------- MODULE IcebergTable -----------------------------
(***************************************************************************)
(* Iceberg tables in directories, as their writers leave them, and the     *)
(* reader's plan for one (src/src/iceberg.rs).                             *)
(*                                                                         *)
(* A commit makes a snapshot, a list of manifests, and a metadata file     *)
(* that names it; a hint file may then be written to name the metadata.    *)
(* Where no hint is written, a writer that lost a race for a version can   *)
(* leave its metadata file beside the winner's.  Old snapshots expire, and *)
(* their files with them, at any time.  Writers are external: they follow  *)
(* the format, so `live` says which rows a snapshot has.                   *)
(***************************************************************************)
EXTENDS IcebergPrune

CONSTANTS
  FirstTables,  \* the tables there are at first: their column, partitioning, data
  MoreFiles,    \* data files that writers add
  Deleted,      \* cells that writers delete by value
  DeletedAt,    \* positions that writers delete
  Asks          \* what callers ask of it, by the kind of its column

VARIABLES
  table,    \* the column's kind and how the table is written to
  history,  \* the snapshots
  head,     \* the current metadata, as the table's writers know it
  meta,     \* the metadata directory
  hint,     \* version-hint.text
  expired,  \* the snapshots that are gone
  call      \* the reader

tableVars == <<table, history, head, meta, hint, expired>>
icebergVars == <<tableVars, call>>

\* A data file is [id, region, groups, recorded, present, format]; its partition
\* tuple has the region, and the transform of its cells.
Cells(f) == FlattenSeq(f.groups)
RowsOf(f) == [i \in DOMAIN Cells(f) |-> [row |-> <<f.id, i>>, cell |-> Cells(f)[i]]]
PartitionTuple(transform, kind, f) ==
  IF transform = "none" THEN <<>>
  ELSE <<Is(f.region),
         IF Cells(f) = <<>> \/ Cells(f)[1] = SqlNull THEN Unknown
         ELSE TransformValue(transform, kind, Cells(f)[1])>>
Inherited == 0
Entry(content, f, tuple) ==
  [status |-> 1, content |-> content, file |-> f, format |-> f.format, seq |-> Inherited,
   tuple |-> tuple, cell |-> SqlNull, ids |-> {}, at |-> {}]
Manifest(content, seq, entries) == [content |-> content, seq |-> seq, entries |-> entries]

\* The data files of a snapshot, with their sequence numbers.
DataEntries(s) ==
  LET mine == SelectSeq(s.manifests, LAMBDA m : m.content = 0)
      of(m) == SelectSeq([i \in DOMAIN m.entries |->
                            [m.entries[i] EXCEPT !.seq = IF @ = Inherited THEN m.seq ELSE @]],
                         LAMBDA e : e.status # 2)
  IN FlattenSeq([i \in DOMAIN mine |-> of(mine[i])])
Empty == [manifests |-> <<>>, live |-> {}, lost |-> FALSE]
Snapshot(i) == IF i = 0 THEN Empty ELSE history[i]

\* The snapshots that a writer makes of another, as number n; a number is also a
\* sequence number.  First a file is added.
Appended(base, n, f, tuple) ==
  [manifests |-> <<Manifest(0, n, <<Entry(0, f, tuple)>>)>> \o base.manifests,
   live |-> base.live \cup Range(RowsOf(f)), lost |-> FALSE]

\* Rows with a cell are deleted by value, in a partition or in an unpartitioned
\* table.
DeletedValue(base, n, v, f, tuple) ==
  LET e == [Entry(2, f, tuple) EXCEPT !.cell = v, !.ids = {"column"}, !.format = "parquet"]
      entries == DataEntries(base)
      reached == {r \in base.live :
                    /\ r.cell = v
                    /\ \E i \in DOMAIN entries : entries[i].file.id = r.row[1] /\ entries[i].tuple = tuple}
  IN [manifests |-> base.manifests \o <<Manifest(1, n, <<e>>)>>,
      live |-> base.live \ reached, lost |-> FALSE]

\* Both, in one snapshot: the new file's rows are not deleted.
Upserted(base, n, v, f, tuple) ==
  LET s == DeletedValue(base, n, v, f, tuple)
  IN [s EXCEPT !.manifests = <<Manifest(0, n, <<Entry(0, f, tuple)>>)>> \o @,
               !.live = @ \cup Range(RowsOf(f))]

\* A row is deleted by its position, in a Parquet file or a deletion vector.
DeletedPosition(base, n, f, i, format, tuple) ==
  LET e == [Entry(1, f, tuple) EXCEPT !.at = {i}, !.format = format]
  IN [manifests |-> base.manifests \o <<Manifest(1, n, <<e>>)>>,
      live |-> {r \in base.live : r.row # <<f.id, i>>}, lost |-> FALSE]

\* A file is dropped; the data manifests are rewritten, what stays keeps its
\* sequence number and tuple.
Dropped(base, n, f) ==
  LET entries == DataEntries(base)
      rewritten == [i \in DOMAIN entries |->
                      [entries[i] EXCEPT !.status = IF entries[i].file = f THEN 2 ELSE 0]]
  IN [manifests |-> <<Manifest(0, n, rewritten)>>
                      \o SelectSeq(base.manifests, LAMBDA m : m.content = 1),
      live |-> {r \in base.live : r.row[1] # f.id}, lost |-> FALSE]

MetadataFile(version, tag, snapshot, transform, specs) ==
  [version |-> version, tag |-> tag, snapshot |-> snapshot, transform |-> transform, specs |-> specs]
NoFile == MetadataFile(0, 0, 0, "none", 0)
Absent == [at |-> "idle"]

\* A table of one file, or one to which rows have been upserted since.
TableInit ==
  \E t \in FirstTables :
    LET tuple(f) == PartitionTuple(t.transform, t.kind, f)
        one == Appended(Empty, 1, t.file, tuple(t.file))
    IN /\ table = [kind |-> t.kind, grows |-> t.grows, hinted |-> t.hinted, last |-> t.last]
       /\ history = <<one>> \o (IF t.upserts = {} THEN <<>>
                               ELSE <<Upserted(one, 2, Cells(t.file)[1], CHOOSE f \in t.upserts : TRUE,
                                               tuple(t.file))>>)
       /\ head = MetadataFile(Len(history), 0, Len(history), t.transform, 1)
       /\ meta = {head}
       /\ hint = (IF t.hinted THEN head ELSE NoFile)
       /\ expired = {}
       /\ call = Absent

-----------------------------------------------------------------------------
(***************************************************************************)
(* External: the table's writers.                                          *)
(***************************************************************************)
Base == Snapshot(head.snapshot)
Seqno == Len(history) + 1
Tuple(f) == PartitionTuple(head.transform, table.kind, f)

Here == {DataEntries(Base)[i].file : i \in DOMAIN DataEntries(Base)}
Used == UNION {{DataEntries(history[i])[j].file : j \in DOMAIN DataEntries(history[i])} :
                 i \in DOMAIN history}
Fresh == MoreFiles \ Used
Additions == {Appended(Base, Seqno, f, Tuple(f)) : f \in Fresh}
ValueDeletes == {DeletedValue(Base, Seqno, v, f, Tuple(f)) : v \in Deleted, f \in Here}
Upserts ==
  {Upserted(Base, Seqno, v, f, Tuple(f)) : v \in Deleted, f \in {g \in Fresh : g.format = "parquet"}}
PositionDeletes(f) ==
  {DeletedPosition(Base, Seqno, f, i, format, Tuple(f)) :
     i \in DOMAIN Cells(f) \cap DeletedAt, format \in {"parquet", "puffin"}}
Drops == {Dropped(Base, Seqno, f) : f \in Here}
Changes == Additions \cup ValueDeletes \cup Upserts \cup (UNION {PositionDeletes(f) : f \in Here}) \cup Drops

\* Bound: the snapshots of the table, lost ones included.
CanCommit == Len(history) < table.grows

\* The metadata appears with its snapshot.
CommitSnapshot ==
  /\ CanCommit
  /\ \E s \in Changes :
       LET new == MetadataFile(head.version + 1, 0, Seqno, head.transform, head.specs)
       IN /\ history' = Append(history, s)
          /\ head' = new
          /\ meta' = meta \cup {new}
  /\ UNCHANGED <<table, hint, expired, call>>

\* Another writer lost the race for the current version: it leaves a metadata
\* file that names its own snapshot, or one that names the current one.
Lose ==
  /\ CanCommit /\ ~table.hinted
  /\ \E s \in Additions \cup {Base}, tag \in {-1, 1} :
       LET i == IF s = Base THEN head.snapshot ELSE Seqno
       IN /\ history' = IF s = Base THEN history ELSE Append(history, [s EXCEPT !.lost = TRUE])
          /\ meta' = meta \cup {[head EXCEPT !.tag = tag, !.snapshot = i]}
          /\ meta' # meta
  /\ UNCHANGED <<table, head, hint, expired, call>>

\* The partitioning changes; files keep the tuples they were written with.
EvolveSpec ==
  /\ head.specs = 1 /\ head.transform # table.last
  /\ head' = MetadataFile(head.version + 1, 0, head.snapshot, table.last, 2)
  /\ meta' = meta \cup {head'}
  /\ UNCHANGED <<table, history, hint, expired, call>>

WriteHint ==
  /\ table.hinted /\ hint # head
  /\ hint' = head
  /\ UNCHANGED <<table, history, head, meta, expired, call>>

\* Clean-up: a snapshot that is not current goes with its files, and with the
\* metadata files of older versions.
Expire ==
  /\ \E i \in DOMAIN history \ (expired \cup {head.snapshot}) :
       /\ expired' = expired \cup {i}
       /\ meta' = {m \in meta : m \in {head, hint} \/ m.version = head.version \/ m.snapshot # i}
  /\ UNCHANGED <<table, history, head, hint, call>>

\* Bound: what writers do after a call has ended is not looked at.
Write ==
  /\ call # Absent => call.at \notin {"answered", "failed", "refused"}
  /\ CommitSnapshot \/ Lose \/ EvolveSpec \/ WriteHint \/ Expire

\* What is still there to read.
Remaining == {history[i] : i \in DOMAIN history \ expired}
ManifestThere(m) == \E s \in Remaining : m \in Range(s.manifests)
FileThere(f) == \E s \in Remaining : \E m \in Range(s.manifests) :
                  \E e \in Range(m.entries) : e.file = f /\ e.status # 2

-----------------------------------------------------------------------------
(***************************************************************************)
(* The plan.                                                               *)
(***************************************************************************)
EmptyPlan == [data |-> <<>>, positions |-> {}, equality |-> {}, skippedDeletes |-> 0,
              skippedData |-> 0, transform |-> "none", single |-> FALSE]
NoScan == [todo |-> <<>>, skip |-> 0, left |-> 0, batches |-> <<>>, schema |-> FALSE]
NoAnswer == [rows |-> <<>>, matched |-> 0, known |-> FALSE, bounded |-> FALSE]

StartRead(ask) ==
  /\ call = Absent
  /\ call' = [at |-> "hint", ask |-> ask, since |-> head, hinted |-> hint, names |-> {},
              chosen |-> NoFile, todo |-> <<>>, plan |-> EmptyPlan, full |-> <<>>, scan |-> NoScan,
              counted |-> FALSE, answer |-> NoAnswer]
  /\ UNCHANGED tableVars

Fails == call' = [call EXCEPT !.at = "failed"]
Refuses == call' = [call EXCEPT !.at = "refused"]

\* version-hint.text is read, and then the file it names looked for.
FindHint ==
  /\ call # Absent /\ call.at = "hint"
  /\ call' = [call EXCEPT !.at = IF hint = NoFile THEN "list" ELSE "named", !.chosen = hint]
  /\ UNCHANGED tableVars
FindNamed ==
  /\ call # Absent /\ call.at = "named"
  /\ call' = [call EXCEPT !.at = IF call.chosen \in meta THEN "open" ELSE "list"]
  /\ UNCHANGED tableVars

\* The names are listed: the highest version, and of those the greatest name.
ListMetadata ==
  /\ call # Absent /\ call.at = "list"
  /\ LET top == {m \in meta : \A n \in meta : n.version <= m.version}
         chosen == CHOOSE m \in top : \A n \in top : n.tag <= m.tag
     IN call' = [call EXCEPT !.at = "compare", !.names = top, !.chosen = chosen]
  /\ UNCHANGED tableVars

\* Files that tie are all read, and must name one current snapshot.
CompareTied ==
  /\ call # Absent /\ call.at = "compare"
  /\ IF ~call.names \subseteq meta THEN Fails
     ELSE IF \E m \in call.names : m.snapshot # call.chosen.snapshot THEN Refuses
     ELSE call' = [call EXCEPT !.at = "open"]
  /\ UNCHANGED tableVars

\* plan_from: the current snapshot's manifest list.
Open ==
  /\ call # Absent /\ call.at = "open"
  /\ LET m == call.chosen
     IN IF m.snapshot \in expired THEN Fails
        ELSE call' = [call EXCEPT !.at = "manifests", !.todo = Snapshot(m.snapshot).manifests,
                                  !.plan.transform = m.transform, !.plan.single = m.specs <= 1]
  /\ UNCHANGED tableVars

\* Mutant: an entry has the sequence number of its manifest.
ManifestSeq(m, e) == m.seq

\* read_manifest_entries: an entry without a sequence number has its manifest's.
EntrySeq(m, e) == IF e.seq = Inherited THEN m.seq ELSE e.seq

\* One entry of a manifest.
TakeEntry(m, plan, e) ==
  IF e.status = 2 THEN plan
  ELSE IF e.format # "parquet"
  THEN IF m.content = 0 /\ e.content = 0 THEN [plan EXCEPT !.skippedData = @ + 1]
       ELSE IF m.content = 1 THEN [plan EXCEPT !.skippedDeletes = @ + 1]
       ELSE plan
  ELSE CASE m.content = 0 /\ e.content = 0 ->
              [plan EXCEPT !.data = Append(@, [file |-> e.file, seq |-> EntrySeq(m, e), tuple |-> e.tuple])]
         [] m.content = 1 /\ e.content = 1 -> [plan EXCEPT !.positions = @ \cup {e}]
         [] m.content = 1 /\ e.content = 2 ->
              [plan EXCEPT !.equality = @ \cup {[e EXCEPT !.seq = EntrySeq(m, e)]}]
         [] OTHER -> plan

TakeManifest(plan, m) == FoldLeft(LAMBDA p, e : TakeEntry(m, p, e), plan, m.entries)

ReadManifest ==
  /\ call # Absent /\ call.at = "manifests" /\ call.todo # <<>>
  /\ LET m == Head(call.todo)
     IN IF ~ManifestThere(m) THEN Fails
        ELSE call' = [call EXCEPT !.todo = Tail(@),
                                  !.plan = TakeManifest(@, m)]
  /\ UNCHANGED tableVars

\* The positions deleted of a data file, by all position-delete files.
Positions(plan, f) == UNION {e.at : e \in {e \in plan.positions : e.file.id = f.id}}

\* The delete files are read: one without equality columns is passed over.  A
\* delete that cannot be read refuses the table.
ReadDeletes ==
  /\ call # Absent /\ call.at = "manifests" /\ call.todo = <<>>
  /\ LET p == call.plan
     IN IF \E e \in p.positions \cup p.equality :
             ~\E s \in Remaining : \E m \in Range(s.manifests) :
                \E d \in Range(m.entries) : d.content # 0 /\ d.file = e.file
        THEN Fails
        ELSE IF p.skippedDeletes > 0 THEN Refuses
        ELSE LET data == [i \in DOMAIN p.data |->
                            [file |-> p.data[i].file, seq |-> p.data[i].seq, tuple |-> p.data[i].tuple,
                             deletes |-> Positions(p, p.data[i].file)]]
             IN call' = [call EXCEPT !.at = "planned", !.full = data, !.plan.data = data,
                                     !.plan.equality = {e \in @ : e.ids # {}}]
  /\ UNCHANGED tableVars

PlanSteps == FindHint \/ FindNamed \/ ListMetadata \/ CompareTied \/ Open \/ ReadManifest \/ ReadDeletes

\* has_deletes
HasDeletes(plan) == plan.equality # {} \/ \E i \in DOMAIN plan.data : plan.data[i].deletes # {}

\* applies_to_partition: a delete is passed over only when a slot of the two
\* tuples is known on both sides and differs.
AppliesToPartition(d, tuple) ==
  \/ d.tuple = <<>> \/ Len(d.tuple) # Len(tuple)
  \/ ~\E i \in DOMAIN tuple :
        d.tuple[i].known /\ tuple[i].known /\ d.tuple[i] # tuple[i]

\* The equality deletes that reach a data file: read_iceberg_with_deletes.
Reaching(plan, entry) ==
  {d \in plan.equality :
     d.seq > entry.seq /\ (~plan.single \/ AppliesToPartition(d, entry.tuple))}
=============================================================================
