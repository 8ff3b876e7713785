------------------------------- MODULE FileReads -------------------------------
(***************************************************************************)
(* Reads of one delimited or Arrow file, local or in a store, compressed   *)
(* or not (src/src/format/csv.rs, arrow.rs, codec.rs, mod.rs, and their    *)
(* use in src/src/engine/local.rs).  A read may open its file more than    *)
(* once, and the file may be replaced between two openings; an object is   *)
(* read as of the version it was looked up at.  The schema of an Arrow     *)
(* file and the count of its rows are looked up each for itself.           *)
(*                                                                         *)
(* A row is known by its version and its place, and takes one byte; its    *)
(* width says how wide a column has to be to hold it.                      *)
(***************************************************************************)
EXTENDS Integers, SequencesExt, FiniteSets, FiniteSetsExt, Functions

CONSTANTS
  ReadFiles,     \* [format, place, codec]: what is read
  Contents,      \* [rows, batches, bad]: the widths of the rows, their batches, and
                 \* the byte that does not decompress, or 0
  ReadAsks,      \* [op, offset, limit]
  Cap,           \* --max-decompressed
  InferMax,      \* csv_infer_max
  BatchSize,     \* batch_size
  CacheEntries,  \* CACHE_ENTRIES
  MaxReads, MaxDrops, MaxReplaces

VARIABLES
  about,         \* the file
  versions,      \* its contents so far; the last is the present one
  kinds,         \* KINDS: for a version, the version whose layout is remembered
  job,           \* the read
  drops, reads

fileVars == <<about, versions, kinds, job, drops, reads>>

All == -1
\* `first` is the version the read began with (history variable), `began` the one that
\* it was last looked up at, and `of` the one whose schema it has.
NoRead == [pc |-> "idle", ask |-> [op |-> "none", offset |-> 0, limit |-> 0], first |-> 0, began |-> 0,
           key |-> 0, of |-> 0, schema |-> 0, tripped |-> FALSE, opened |-> 0, result |-> "none",
           out |-> <<>>, count |-> 0]

FilesInit ==
  /\ about \in ReadFiles /\ versions \in {<<c>> : c \in Contents}
  /\ kinds = <<>> /\ job = NoRead /\ drops = 0 /\ reads = 0

Latest == Len(versions)
Compressed == about.codec # "none"
IsObject == about.place = "object"
RowsOf(v) == versions[v].rows
Least(S) == CHOOSE n \in S : \A m \in S : n <= m
Greater(m, n) == IF m > n THEN m ELSE n
\* The rows of the first batches, and those of all.
RowsThrough(batches) ==
  LET sum[n \in 0 .. Len(batches)] == IF n = 0 THEN 0 ELSE sum[n - 1] + batches[n]
  IN sum
BatchRows(batches) == RowsThrough(batches)[Len(batches)]

\* Only text is compressed around the format (`compressible`).  The batches of a content
\* have its rows.
FilesAssumption ==
  /\ {Cap, InferMax, CacheEntries, MaxDrops} \subseteq Nat /\ BatchSize \in Nat \ {0}
  /\ \A f \in ReadFiles : /\ f.format \in {"csv", "arrow", "stream"}
                          /\ f.codec \notin {"none", "unknown"} => f.format = "csv"
  /\ \A a \in ReadAsks : a \in [op : {"schema", "count", "window"}, offset : Nat, limit : Nat \cup {All}]
  /\ \A c \in Contents : /\ c \in [rows : Seq(Nat), batches : Seq(Nat), bad : Nat]
                         /\ BatchRows(c.batches) = Len(c.rows)

-----------------------------------------------------------------------------
\* What a read of the bytes of version v from the start, for its first n rows or for
\* all of them, may come to: how many rows arrive, and what stops it before it has
\* what it needs.  Past the cap one byte more is read: if there is one, the limit is
\* what stopped it.
Marked(v, cut) ==
  (IF cut > 0 THEN {<<cut - 1, 1, "io">>} ELSE {})
    \cup (IF Compressed /\ versions[v].bad > 0 THEN {<<versions[v].bad - 1, 2, "invalid">>} ELSE {})
    \cup (IF Compressed /\ Len(RowsOf(v)) > Cap THEN {<<Cap, 3, "over">>} ELSE {})
First(stops) == CHOOSE s \in stops : \A t \in stops : s[1] < t[1] \/ (s[1] = t[1] /\ s[2] <= t[2])
Taken(v, n, cut) ==
  LET needs == IF n = All \/ n > Len(RowsOf(v)) THEN Len(RowsOf(v)) + 1 ELSE n
      stops == {s \in Marked(v, cut) : s[1] < needs}
  IN IF stops = {} THEN [rows |-> IF needs > Len(RowsOf(v)) THEN Len(RowsOf(v)) ELSE needs, stop |-> "none"]
     ELSE [rows |-> First(stops)[1], stop |-> First(stops)[3]]

\* Where a connection may break off: before a row, or nowhere.
Cuts(v) == IF drops < MaxDrops THEN 0 .. Len(RowsOf(v)) + 1 ELSE {0}

\* `decode_error`: an error reading the stored bytes is told as it was.
DecodeError(stop) == stop
\* `or_too_large`
OrTooLarge(tripped, error) == IF tripped THEN "too_large" ELSE error

Settle(j, result, out, count) ==
  [j EXCEPT !.pc = "done", !.result = OrTooLarge(j.tripped, result), !.out = out, !.count = count]
FailRead(j, result) == Settle(j, result, <<>>, 0)
\* Ends with what stopped the bytes.
Stopped(j, stop) == FailRead([j EXCEPT !.tripped = stop = "over"], IF Compressed THEN DecodeError(stop) ELSE stop)

Unchanged == UNCHANGED <<about, versions>>
\* `job` becomes one of these, and a connection has broken if `cut` says so.
ReadBecomes(j, cut) == job' = j /\ drops' = drops + (IF cut > 0 THEN 1 ELSE 0) /\ UNCHANGED reads

-----------------------------------------------------------------------------
\* `with_input`: an object is looked at, and its version is the read's.
Counts == about.format # "csv"
Start(ask) ==
  /\ job.pc \in {"idle", "done"} /\ reads < MaxReads /\ reads' = reads + 1
  /\ LET j == [NoRead EXCEPT !.ask = ask, !.first = Latest, !.began = Latest,
                             !.pc = IF about.format = "csv" THEN "infer" ELSE "kind"]
     IN job' = CASE ask.op = "count" /\ ~Counts -> Settle(j, "uncounted", <<>>, 0)
                 [] (ask.op # "count" \/ Counts) /\ about.codec = "unknown" -> FailRead(j, "undecodable")
                 [] OTHER -> j
  /\ UNCHANGED <<kinds, drops>> /\ Unchanged

\* A store refuses another version than the one it is asked for.
Refused(j) == IsObject /\ Latest # j.began

Replace(content) ==
  /\ Latest <= MaxReplaces
  /\ versions' = Append(versions, content)
  /\ UNCHANGED <<about, kinds, job, drops, reads>>

\* A read is given up between two batches.
Cancelled ==
  /\ job.pc \in {"decode", "blocks", "stream"}
  /\ job' = FailRead(job, "cancelled") /\ UNCHANGED <<kinds, drops, reads>> /\ Unchanged

-----------------------------------------------------------------------------
(* Delimited files: the columns' types are inferred from the first rows,   *)
(* then the rows are decoded as them, a batch at a time.                   *)

Through(ask) == IF ask.limit = All THEN All ELSE ask.offset + ask.limit
\* Rows are read whole batches at a time until there are enough.
Size(n) == IF n = All THEN BatchSize ELSE Least({BatchSize, Greater(n, 1)})
BatchEnd(n, i) == ((i + Size(n) - 1) \div Size(n)) * Size(n)
ToDecode(n) == IF n = All THEN All ELSE BatchEnd(n, Greater(n, 1))

\* The types are inferred from the rows read, if they are more than the sample.
InferOver(ask) == IF ask.op = "schema" THEN InferMax ELSE Greater(Through(ask), InferMax)

Widest(v, n) == Max({0} \cup {RowsOf(v)[i] : i \in 1 .. n})

Infer ==
  /\ job.pc = "infer"
  /\ \E cut \in Cuts(Latest) :
       LET taken == Taken(Latest, InferOver(job.ask), cut)
           j == [job EXCEPT !.opened = @ + 1, !.of = Latest, !.schema = Widest(Latest, taken.rows), !.pc = "decode"]
       IN IF Refused(job) THEN cut = 0 /\ ReadBecomes(FailRead(job, "changed"), 0)
          ELSE /\ taken.stop = "io" <=> cut > 0
               /\ ReadBecomes(CASE taken.stop # "none" -> Stopped(j, taken.stop)
                                [] taken.stop = "none" /\ job.ask.op = "schema" -> Settle(j, "schema", <<>>, 0)
                                [] OTHER -> j, cut)
  /\ UNCHANGED kinds /\ Unchanged

\* `window_batches`
WindowOf(v, ask, rows) ==
  [i \in 1 .. Greater(0, Least({rows, IF ask.limit = All THEN rows ELSE ask.offset + ask.limit}) - ask.offset)
     |-> <<v, ask.offset + i>>]

\* A file is opened again; an object's bytes, and those of a compressed file, are those
\* that inference has taken and then the rest of the same response.
Reopens == ~IsObject /\ ~Compressed
Decode ==
  /\ job.pc = "decode"
  /\ LET v == IF Reopens THEN Latest ELSE job.of
         n == Through(job.ask)
     IN \E cut \in Cuts(v) :
       LET taken == Taken(v, ToDecode(n), cut)
           wide == {i \in 1 .. Len(RowsOf(v)) : RowsOf(v)[i] > job.schema /\ (n # All => i <= ToDecode(n))}
           unfit == wide # {} /\ (taken.stop = "none" \/ BatchEnd(n, Least(wide)) <= taken.rows)
           j == [job EXCEPT !.opened = @ + (IF Reopens THEN 1 ELSE 0)]
       IN /\ (taken.stop = "io" /\ ~unfit) <=> cut > 0
          /\ ReadBecomes(CASE unfit -> FailRead(j, "unfit")
                           [] ~unfit /\ taken.stop # "none" -> Stopped(j, taken.stop)
                           [] OTHER -> Settle(j, "rows", WindowOf(v, job.ask, taken.rows), 0), cut)
  /\ UNCHANGED kinds /\ Unchanged

-----------------------------------------------------------------------------
(* Arrow files: what their footer says is learned once for each version.   *)

\* Mutant: what was learned of the file is good for every version of it.
AnyVersion(v) == 1
\* `Version::of`: a file as of its length and time, an object as of its version.
VersionOf(v) == v

\* What follows once the layout is known: that of version w.
Known(j, w) ==
  CASE j.ask.op = "schema" -> [j EXCEPT !.pc = "look", !.of = w]
    [] j.ask.op = "count" /\ about.format = "arrow" -> Settle(j, "count", <<>>, BatchRows(versions[w].batches))
    [] j.ask.op = "count" /\ about.format = "stream" -> Settle(j, "uncounted", <<>>, 0)
    [] OTHER -> [j EXCEPT !.pc = IF about.format = "arrow" THEN "blocks" ELSE "stream", !.of = w]

Kind ==
  /\ job.pc = "kind"
  /\ LET key == VersionOf(IF IsObject THEN job.began ELSE Latest)
     IN job' = IF key \in DOMAIN kinds THEN Known(job, kinds[key]) ELSE [job EXCEPT !.pc = "learn", !.key = key]
  /\ UNCHANGED <<kinds, drops, reads>> /\ Unchanged

\* `row_count` after `file_schema`: a `with_input` of its own.
Look ==
  /\ job.pc = "look"
  /\ job' = [job EXCEPT !.pc = "kind", !.ask.op = "count", !.began = IF IsObject THEN Latest ELSE @]
  /\ UNCHANGED <<kinds, drops, reads>> /\ Unchanged

\* `Cache::put`
Put(key, w) ==
  [k \in {key} \cup (IF Cardinality(DOMAIN kinds) >= CacheEntries THEN {} ELSE DOMAIN kinds) |->
     IF k = key THEN w ELSE kinds[k]]
Learn ==
  /\ job.pc = "learn"
  /\ \E cut \in Cuts(Latest) \cap {0, 1} :
       IF Refused(job) \/ cut > 0
       THEN /\ Refused(job) => cut = 0
            /\ ReadBecomes(FailRead(job, IF cut > 0 THEN "io" ELSE "changed"), cut) /\ UNCHANGED kinds
       ELSE /\ ReadBecomes(Known([job EXCEPT !.pc = "kind"], Latest), 0)
            /\ kinds' = Put(job.key, Latest)
  /\ Unchanged

\* `read_file`: of each batch that overlaps the window, the rows inside of it.
Overlap(batches, offset, end) ==
  LET cut(acc, rows) ==
        LET from == Greater(offset - acc.start, 0)
            to == Least({end - acc.start, rows})
        IN [start |-> acc.start + rows,
            places |-> IF acc.start >= end \/ acc.start + rows <= offset THEN acc.places
                       ELSE acc.places \o [i \in 1 .. to - from |-> acc.start + from + i]]
      after[n \in 0 .. Len(batches)] ==
        IF n = 0 THEN [start |-> 0, places |-> <<>>] ELSE cut(after[n - 1], batches[n])
  IN after[Len(batches)].places

\* The blocks are read by their places.  Those of another version's layout may hold
\* anything, or lie past the end.
Blocks ==
  /\ job.pc = "blocks"
  /\ \E cut \in Cuts(Latest) \cap {0, 1} :
       LET total == BatchRows(versions[job.of].batches)
           end == IF job.ask.limit = All THEN total ELSE Through(job.ask)
           places == Overlap(versions[job.of].batches, job.ask.offset, end)
           none == places = <<>>
       IN /\ none \/ Refused(job) => cut = 0
          /\ CASE cut > 0 -> ReadBecomes(FailRead(job, "io"), cut)
               [] cut = 0 /\ ~none /\ Refused(job) -> ReadBecomes(FailRead(job, "changed"), 0)
               [] OTHER ->
                    \/ ReadBecomes(Settle(job, "rows", [i \in DOMAIN places |-> <<job.of, places[i]>>], 0), 0)
                       /\ (none \/ job.of = Latest)
                    \/ ReadBecomes(FailRead(job, "invalid"), 0) /\ ~none /\ job.of # Latest
                    \/ ReadBecomes(Settle(job, "rows", [i \in DOMAIN places |-> <<0, places[i]>>], 0), 0)
                       /\ ~none /\ job.of # Latest
  /\ UNCHANGED kinds /\ Unchanged

\* A stream is read from the start, a batch at a time until there are enough rows.
Stream ==
  /\ job.pc = "stream"
  /\ \E cut \in Cuts(Latest) :
       LET ends == {RowsThrough(versions[Latest].batches)[n] : n \in 0 .. Len(versions[Latest].batches)}
           enough == {e \in ends : Through(job.ask) # All /\ e >= Through(job.ask) /\ e > 0}
           taken == Taken(Latest, IF enough = {} THEN All ELSE Least(enough), cut)
       IN IF Refused(job) THEN cut = 0 /\ ReadBecomes(FailRead(job, "changed"), 0)
          ELSE /\ taken.stop = "io" <=> cut > 0
               /\ ReadBecomes(IF taken.stop # "none" THEN FailRead(job, taken.stop)
                              ELSE Settle(job, "rows", WindowOf(Latest, job.ask, taken.rows), 0), cut)
  /\ UNCHANGED kinds /\ Unchanged

FilesNext ==
  \/ \E ask \in ReadAsks : Start(ask)
  \/ \E content \in Contents : Replace(content)
  \/ Cancelled \/ Infer \/ Decode \/ Kind \/ Look \/ Learn \/ Blocks \/ Stream

FilesSpec == FilesInit /\ [][FilesNext]_fileVars

-----------------------------------------------------------------------------
\* The rows of a window of version v.
Slice(v, ask) == WindowOf(v, ask, Len(RowsOf(v)))

\* What is read is the version that the read was looked up at.
Still == IsObject \/ Latest = job.began
OneOf == IF Still THEN {job.began} ELSE 1 .. Latest

RowsAreTheWindow == job.result = "rows" => \E v \in OneOf : job.out = Slice(v, job.ask)
CountIsOfTheRows == job.result = "count" => \E v \in OneOf : job.count = Len(RowsOf(v))

\* A count beside a schema is of the version the schema is of, if the file was not
\* replaced since the read began; nothing holds the two lookups together if it was.
CountIsOfTheSchema ==
  job.result = "count" /\ job.of # 0 /\ Latest = job.first => job.count = Len(RowsOf(job.of))

\* A file is too large if it decompresses to more than the cap, bytes are bad if they are,
\* and a connection that broke is neither.  A value that does not fit is past the rows
\* asked for.
FailsForItsCause ==
  /\ job.result = "too_large" => Compressed /\ \E v \in OneOf : Len(RowsOf(v)) > Cap
  /\ job.result = "invalid" => \/ Compressed /\ \E v \in OneOf : versions[v].bad > 0
                               \/ ~Still /\ about.format = "arrow"
  /\ job.result = "io" => drops > 0
  /\ job.result = "changed" => IsObject /\ Latest # job.began
  /\ job.result = "unfit" /\ Still => job.ask.limit = All \/ Len(RowsOf(job.began)) > Through(job.ask)
  /\ job.result # "over"

\* Text that a store sends, or that is decompressed, is read in one request.
OpensOnce == IsObject \/ Compressed => job.opened <= 1

\* What a read says is so, of the version it was looked up at, unless the local file was
\* replaced while it was read; and even then of one version, unless it is an Arrow file,
\* whose footer may be of one and whose batches of another.  A schema and a count said
\* together are of one version, unless the file was replaced, local or not.
FileReadsAreTrue ==
  job.pc = "done" =>
    /\ Still \/ about.format # "arrow" => RowsAreTheWindow
    /\ CountIsOfTheRows /\ CountIsOfTheSchema /\ FailsForItsCause /\ OpensOnce
=============================================================================
