------------------------------ MODULE GridScan ------------------------------
(***************************************************************************)
(* One window of the grid, as the SQL engine scans it (src/src/engine/     *)
(* sql.rs, sql/deep.rs, sql/positioned.rs, sql/streamed.rs).  The grid     *)
(* pages by running the same scan at another offset, so every window has   *)
(* to be cut from one order of the rows: by key, and rows of one key as    *)
(* the source holds them.  A parallel plan leaves ties to timing; a table  *)
(* is therefore read by one of several plans, each in passes over the      *)
(* file, while writers may replace the file and other requests share the   *)
(* schemas that are remembered for it (src/src/format/json.rs).            *)
(*                                                                         *)
(* A row is [key, match, width]: match is whether the filter lets it       *)
(* through, and width how wide a column type has to be to hold it.  Types  *)
(* are numbers, and types t hold a row of width at most t: the chain       *)
(* stands for the order of the schemas that can be inferred from a file.   *)
(***************************************************************************)
EXTENDS Integers, FiniteSets, FiniteSetsExt, SequencesExt

CONSTANTS
    Tables,      \* the tables scanned: records of a kind and the rows of the file
    Asks,        \* the windows asked for: records (see TypeOK)
    Null,        \* the key of a row that has none
    DeepRows,    \* DEEP: the rows a window reaches before it is read in two passes
    SampleRows,  \* SAMPLE: the rows the first of the two passes samples
    Margin,      \* how far, in sampled rows, a band reaches beyond its window
    InferRows,   \* SAMPLE_VALUES: the rows a schema is inferred from
    MaxChanges   \* bound: how often the file is replaced

Kinds == {"csv", "parquet", "memory", "streamed"}
Rows == [key : Nat \cup {Null}, match : BOOLEAN, width : Nat]

ASSUME GridAssumption ==
    /\ \A t \in Tables : t.kind \in Kinds /\ t.rows \in Seq(Rows)
    /\ SampleRows \in Nat \ {0}
    /\ {DeepRows, Margin, InferRows, MaxChanges} \subseteq Nat

VARIABLES
    kind,        \* the kind of the table scanned
    ask,         \* the window asked for
    file,        \* the contents the file has had; the last is the present one
    known,       \* the schema remembered for each version of the file, or Unknown
    narrowed,    \* a remembered schema has been forgotten, or replaced by a narrower one
    other,       \* another request's grid read of the file
    call         \* the scan

vars == <<kind, ask, file, known, narrowed, other, call>>

Unknown == -1
Versions == 1 .. (MaxChanges + 1)
AllRows == UNION {ToSet(t.rows) : t \in Tables}
MaxRows == Max({Len(t.rows) : t \in Tables} \cup {0})
MaxKey == Max(({r.key : r \in AllRows} \ {Null}) \cup {0})
Widths == 0 .. Max({r.width : r \in AllRows} \cup {0})
Present == Len(file)

-----------------------------------------------------------------------------
(* The order every plan has to agree on.                                   *)

\* A null is after every value, so first when the order is descending.
Rank(key) == IF key = Null THEN MaxKey + 1 ELSE key

\* Whether key a comes strictly before key b.
Before(a, b) == IF ask.descending THEN Rank(a) > Rank(b) ELSE Rank(a) < Rank(b)

Key(v, i) == file[v][i].key
Matching(v) == {i \in DOMAIN file[v] : file[v][i].match}

\* A row's place, numbered by whoever reads it: partition p's nth row is far
\* beyond partition p - 1's.
Place(p, n) == p * (MaxRows + 1) + n

\* Mutant: the partitions share one queue, and the second may start first.
DealsFromOneQueue(v, cut) ==
    {[i \in DOMAIN file[v] |-> IF i <= cut THEN p ELSE 1 - p] : p \in {0, 1}}

\* How the rows of a version may be dealt to two partitions when the file is
\* cut after row `cut`: each keeps the range it was given.
Deals(v, cut) == {[i \in DOMAIN file[v] |-> IF i <= cut THEN 0 ELSE 1]}

\* The places a scan on several partitions may number its rows with.
PlacesAsRead(v) ==
    {[i \in DOMAIN file[v] |-> Place(deal[i], Cardinality({j \in 1 .. i : deal[j] = deal[i]}))] :
        deal \in UNION {Deals(v, cut) : cut \in 0 .. Len(file[v])}}

\* The places row_number() gives on one partition: it counts the matching rows.
PlacesOnOne(v) == {[i \in DOMAIN file[v] |-> Cardinality({j \in Matching(v) : j <= i})]}

Precedes(v, places, i, j) ==
    \/ Before(Key(v, i), Key(v, j))
    \/ ~Before(Key(v, j), Key(v, i)) /\ places[i] < places[j]

SortedBy(v, places, rows) == SetToSortSeq(rows, LAMBDA i, j : Precedes(v, places, i, j))

\* What a parallel sort by key alone may deliver: ties in any order.
ParallelOrders(v) ==
    {s \in SetToSeqs(Matching(v)) :
        \A n \in 1 .. Len(s) - 1 : ~Before(Key(v, s[n + 1]), Key(v, s[n]))}

\* LIMIT and OFFSET.
Window(s, offset, limit) == SubSeq(s, offset + 1, Min({offset + limit, Len(s)}))

-----------------------------------------------------------------------------
(* What a file holds, and what is remembered of it.                        *)

Smaller(a, b) == Min({a, b})

\* The narrowest types that hold the first n rows of a version.
Inferred(v, n) == Max({file[v][i].width : i \in 1 .. Smaller(n, Len(file[v]))} \cup {0})
Whole(v) == Inferred(v, Len(file[v]))

\* The schema of a version: the remembered one, or that of the sample.
Schema(v) == IF known[v] = Unknown THEN Inferred(v, InferRows) ELSE known[v]

Remember(v, types) ==
    /\ known' = [known EXCEPT ![v] = types]
    /\ narrowed' = (narrowed \/ types < known[v])

\* What a pass that met a row too wide remembers: the types of the whole file.
Widened(v) == Whole(v)

-----------------------------------------------------------------------------
(* How the window is read.                                                 *)

Read == CASE kind = "streamed" -> "Streamed"
          [] kind = "csv" -> "InFileOrder"
          [] OTHER -> "Probed"

Deep == ask.offset + ask.limit > DeepRows

\* How the rows of a deep window may be numbered: a listing table's as the
\* scan reads them, any other table's on one partition.
Numberings(v) == IF kind \in {"csv", "parquet"} THEN PlacesAsRead(v) ELSE PlacesOnOne(v)

\* The count of a sorted window is taken by the window's own passes, unless
\* it is probed; that of an unsorted streamed one runs beside it.
CountedByWindow == ask.sorted /\ (Read # "Probed" \/ Deep)
CountedBeside == ~ask.sorted /\ Read = "Streamed"

OnePass == IF Read = "Probed" THEN "probe" ELSE "order"
FirstRead == IF ~ask.sorted THEN "rows" ELSE IF Deep THEN "sample" ELSE OnePass

NoRows == [version |-> 0, rows |-> <<>>]
NoBand == [version |-> 0, matched |-> 0, places |-> <<>>, lower |-> <<>>, upper |-> <<>>, kept |-> FALSE]

\* A scan, planned for the nth time.
Attempt(n) ==
    [pc |-> "plan", attempt |-> n, table |-> 0, types |-> 0, widened |-> FALSE,
     unplanned |-> FALSE, counting |-> "no", counted |-> Unknown, band |-> NoBand,
     window |-> NoRows, outcome |-> "none"]

Init ==
    /\ \E t \in Tables : kind = t.kind /\ file = <<t.rows>>
    /\ ask \in Asks
    /\ known = [v \in Versions |-> Unknown]
    /\ narrowed = FALSE
    /\ other = [pc |-> "idle", version |-> 0, types |-> 0]
    /\ call = Attempt(1)

\* The version a pass reads: a table in memory is the one it was loaded from.
Now == IF kind = "memory" THEN call.table ELSE Present

\* Mutant: a count shows no column, and its pass decodes none.
MeetsWhatIsShown == kind = "streamed" /\ call.counting # "running" /\ Whole(Present) > call.types

\* A full pass over a streamed table meets a row its types cannot hold.
Meets == kind = "streamed" /\ Whole(Present) > call.types

\* Mutant: planned again for as long as a pass finds the file wider.
RetryEachTime(c) ==
    IF c.widened THEN Attempt(c.attempt + 1) ELSE [c EXCEPT !.pc = "done", !.counting = "no"]

\* What becomes of a scan that has failed: planned once more if a pass found
\* the file wider, its file checked if it could not be planned.
Retry(c) ==
    CASE c.attempt = 1 /\ c.widened -> Attempt(2)
      [] c.attempt = 1 /\ ~c.widened /\ c.unplanned /\ c.pc # "check" -> [c EXCEPT !.pc = "check"]
      [] OTHER -> [c EXCEPT !.pc = "done", !.counting = "no"]

Failed(c, why) == Retry([c EXCEPT !.outcome = why])

\* The window has been read, and `counted` rows match, if it says.
Got(v, rows, counted) ==
    call' = [call EXCEPT !.pc = "total", !.window = [version |-> v, rows |-> rows],
                         !.counted = IF counted = Unknown THEN call.counted ELSE counted]

Table == <<kind, ask, file, known, narrowed, other>>

-----------------------------------------------------------------------------
(* The scan.                                                               *)

\* The table is registered, with the schema its file has now, and the first
\* query planned over it.  One that compares a column with what its types do
\* not allow cannot be planned.
Plan ==
    /\ call.pc = "plan"
    /\ LET types == IF kind = "streamed" THEN Schema(Present) ELSE 0
           planned == [call EXCEPT !.table = Present, !.types = types]
       IN /\ IF kind = "streamed" THEN Remember(Present, types)
                                  ELSE UNCHANGED <<known, narrowed>>
          /\ call' = IF kind = "streamed" /\ types < ask.needs
                     THEN Failed([planned EXCEPT !.unplanned = TRUE], "unplanned")
                     ELSE [planned EXCEPT
                             !.pc = IF CountedByWindow \/ CountedBeside THEN FirstRead ELSE "count",
                             !.counting = IF CountedBeside THEN "running" ELSE "no"]
    /\ UNCHANGED <<kind, ask, file, other>>

\* The count of a table that can be read in parallel, before its window.
Count ==
    /\ call.pc = "count"
    /\ call' = [call EXCEPT !.pc = FirstRead, !.counted = Cardinality(Matching(Now))]
    /\ UNCHANGED Table

\* The count of a streamed table, beside its window.
CountBeside ==
    /\ call.counting = "running"
    /\ ~Meets
    /\ call' = [call EXCEPT !.counting = "done", !.counted = Cardinality(Matching(Present))]
    /\ UNCHANGED Table

CountMeets ==
    /\ call.counting = "running"
    /\ Meets
    /\ Remember(Present, Widened(Present))
    /\ call' = [call EXCEPT !.counting = "failed", !.widened = TRUE]
    /\ UNCHANGED <<kind, ask, file, other>>

\* A pass of the window, or of the count after it, meets a row too wide.
Passes == {"sample", "order", "recount", "check"} \cup (IF call.band.kept THEN {} ELSE {"band"})

PassMeets ==
    /\ call.pc \in Passes
    /\ Meets
    /\ Remember(Present, Widened(Present))
    /\ call' = Failed([call EXCEPT !.widened = TRUE], "types")
    /\ UNCHANGED <<kind, ask, file, other>>

\* The check of the file of a query that could not be planned finds nothing.
CheckPasses ==
    /\ call.pc = "check"
    /\ ~Meets
    /\ call' = Failed(call, "unplanned")
    /\ UNCHANGED Table

\* Unsorted: the rows of the window in the file's order, on one partition.
\* The read stops once it has them, somewhere after the last.
InOrder(v) == SetToSortSeq(Matching(v), LAMBDA i, j : i < j)
Needed(v) ==
    LET window == Smaller(ask.offset + ask.limit, Cardinality(Matching(v)))
    IN IF window < ask.offset + ask.limit THEN Len(file[v]) ELSE InOrder(v)[window]

ReadRows ==
    /\ call.pc = "rows"
    /\ kind = "streamed" => Inferred(Present, Needed(Present)) <= call.types
    /\ Got(Now, Window(InOrder(Now), ask.offset, ask.limit), Unknown)
    /\ UNCHANGED Table

RowsMeet ==
    /\ call.pc = "rows"
    /\ Meets
    /\ Remember(Present, Widened(Present))
    /\ \/ call' = Failed([call EXCEPT !.widened = TRUE], "types")
       \/ /\ Inferred(Present, Needed(Present)) <= call.types
          /\ call' = [call EXCEPT !.widened = TRUE]
    /\ UNCHANGED <<kind, ask, file, other>>

-----------------------------------------------------------------------------
(* A window deep into a table, in two passes (sql/deep.rs).                *)

\* A bound is a row's key and place, or nothing where the band is open.
Bound(v, places, i) == <<[key |-> Key(v, i), place |-> places[i]]>>

AheadOf(v, places, i, bound) ==
    /\ bound # <<>>
    /\ \/ Before(Key(v, i), bound[1].key)
       \/ ~Before(bound[1].key, Key(v, i)) /\ places[i] < bound[1].place

\* The places in the sorted sample of the band's bounds, counted from zero.
At(rank, matched, sampled) == (rank * sampled) \div matched
Lower(matched, sampled) == At(ask.offset, matched, sampled) - Margin
Upper(matched, sampled) ==
    At(Smaller(ask.offset + ask.limit, matched), matched, sampled) + 1 + Margin

Sample ==
    /\ call.pc = "sample"
    /\ ~Meets
    /\ LET v == Now
           matched == Cardinality(Matching(v))
       IN IF ask.offset >= matched
          THEN Got(v, <<>>, matched)
          ELSE \E places \in Numberings(v), sample \in kSubset(Smaller(SampleRows, matched), Matching(v)),
                  kept \in CASE kind = "streamed" -> BOOLEAN
                             [] kind = "csv" -> BOOLEAN
                             [] OTHER -> {FALSE} :
                 LET sorted == SortedBy(v, places, sample)
                     lower == Lower(matched, Len(sorted))
                     upper == Upper(matched, Len(sorted))
                 IN call' = [call EXCEPT
                      !.pc = "band",
                      !.band = [version |-> v, matched |-> matched, kept |-> kept,
                                places |-> IF kept THEN places ELSE <<>>,
                                lower |-> IF lower >= 0 THEN Bound(v, places, sorted[lower + 1]) ELSE <<>>,
                                upper |-> IF upper < Len(sorted)
                                          THEN Bound(v, places, sorted[upper + 1]) ELSE <<>>]]
    /\ UNCHANGED Table

\* The rows the second pass reads are those the first has kept on disk, or
\* the table's, again.
BandOf == IF call.band.kept THEN call.band.version ELSE Now
BandPlaces == IF call.band.kept THEN {call.band.places} ELSE Numberings(BandOf)

\* Whether the file has as many rows that match as the first pass counted.
SameCount(read) == read = call.band.matched

Band ==
    /\ call.pc = "band"
    /\ call.band.kept \/ ~Meets
    /\ \E places \in BandPlaces :
         LET v == BandOf
             ahead == {i \in Matching(v) : AheadOf(v, places, i, call.band.lower)}
             band == {i \in Matching(v) \ ahead :
                        call.band.upper = <<>> \/ AheadOf(v, places, i, call.band.upper)}
             start == ask.offset - Cardinality(ahead)
             end == Smaller(ask.offset + ask.limit, call.band.matched) - Cardinality(ahead)
         IN IF SameCount(Cardinality(Matching(v))) /\ 0 <= start /\ 0 <= end /\ end <= Cardinality(band)
            THEN Got(v, SubSeq(SortedBy(v, places, band), start + 1, end), call.band.matched)
            ELSE call' = [call EXCEPT !.pc = OnePass, !.band = NoBand]
    /\ UNCHANGED Table

-----------------------------------------------------------------------------
(* A window in one pass.                                                   *)

\* By key and place, counting what the sort takes in, unless the sort was
\* planned away: by a key that is one and the same for every row.
ReadOrder ==
    /\ call.pc = "order"
    /\ ~Meets
    /\ LET v == Now
       IN \E places \in (IF Read = "InFileOrder" THEN PlacesAsRead(v) ELSE PlacesOnOne(v)),
             counted \in {Cardinality(Matching(v))} \cup
                         (IF Read # "InFileOrder" /\ Cardinality({Key(v, i) : i \in Matching(v)}) <= 1
                          THEN {Unknown} ELSE {}) :
            Got(v, Window(SortedBy(v, places, Matching(v)), ask.offset, ask.limit), counted)
    /\ UNCHANGED Table

\* The parallel plan is asked for one row either side of the window.
Lead == Smaller(ask.offset, 1)

Untied(v, probe) == \A n \in 1 .. Len(probe) - 1 : Key(v, probe[n]) # Key(v, probe[n + 1])

Probe ==
    /\ call.pc = "probe"
    /\ LET v == Now
       IN \E s \in ParallelOrders(v) :
            LET probe == Window(s, ask.offset - Lead, ask.limit + Lead + 1)
            IN IF Untied(v, probe)
               THEN Got(v, Window(probe, Lead, ask.limit), Unknown)
               ELSE call' = [call EXCEPT !.pc = "order"]
    /\ UNCHANGED Table

-----------------------------------------------------------------------------
(* The end of the scan.                                                    *)

\* The count is waited for, taken again if no pass of the window took it.
Total ==
    /\ call.pc = "total"
    /\ \/ /\ call.counting = "failed"
          /\ call' = Failed(call, "types")
       \/ /\ call.counting \notin {"failed", "running"}
          /\ call' = IF call.counted = Unknown THEN [call EXCEPT !.pc = "recount"]
                     ELSE [call EXCEPT !.pc = "done", !.outcome = "ok"]
    /\ UNCHANGED Table

Recount ==
    /\ call.pc = "recount"
    /\ ~Meets
    /\ call' = [call EXCEPT !.pc = "total", !.counted = Cardinality(Matching(Now))]
    /\ UNCHANGED Table

\* A deadline, a cancellation or an I/O error, wherever the scan is.
Fail ==
    /\ call.pc # "done"
    /\ call' = Failed(call, "failed")
    /\ UNCHANGED Table

Scan ==
    \/ Plan \/ Count \/ CountBeside \/ CountMeets \/ PassMeets \/ CheckPasses
    \/ ReadRows \/ RowsMeet \/ Sample \/ Band \/ ReadOrder \/ Probe
    \/ Total \/ Recount \/ Fail

-----------------------------------------------------------------------------
(* Other requests, and the file's writers.                                 *)

\* A grid read of the first n rows by another request (read_rows): if one of
\* them is too wide for the schema, the rows it covers are inferred ...
OtherReads(n) ==
    /\ kind = "streamed"
    /\ other.pc = "idle"
    /\ Remember(Present, Schema(Present))
    /\ other' = IF Inferred(Present, n) > Schema(Present)
                THEN [pc |-> "widening", version |-> Present,
                      types |-> Inferred(Present, Max({n, InferRows}))]
                ELSE [other EXCEPT !.pc = "done"]
    /\ UNCHANGED <<kind, ask, file, call>>

\* ... and their types become the file's.
OtherWidens ==
    /\ other.pc = "widening"
    /\ Remember(other.version, other.types)
    /\ other' = [other EXCEPT !.pc = "done"]
    /\ UNCHANGED <<kind, ask, file, call>>

\* The cache of schemas is full, and cleared for another file's.
Forget ==
    /\ known # [v \in Versions |-> Unknown]
    /\ known' = [v \in Versions |-> Unknown]
    /\ narrowed' = TRUE
    /\ UNCHANGED <<kind, ask, file, other, call>>

\* The file is replaced: bounded to the same rows in reverse, or all but one.
Replacements(rows) == {Reverse(rows)} \cup {RemoveAt(rows, i) : i \in DOMAIN rows}

Change ==
    /\ Present <= MaxChanges
    /\ call.pc # "done"
    /\ \E rows \in Replacements(file[Present]) : file' = Append(file, rows)
    /\ UNCHANGED <<kind, ask, known, narrowed, other, call>>

Others == \/ \E n \in 1 .. MaxRows : OtherReads(n)
          \/ OtherWidens \/ Forget \/ Change

Next == Scan \/ Others

Spec == Init /\ [][Next]_vars

-----------------------------------------------------------------------------
(* What is checked.                                                        *)

\* Every state is of its type: a scan is planned at most twice.
TypeOK ==
    /\ kind \in Kinds
    /\ ask \in [offset : Nat, limit : Nat, sorted : BOOLEAN, descending : BOOLEAN, needs : Nat]
    /\ Present \in Versions
    /\ known \in [Versions -> Widths \cup {Unknown}]
    /\ narrowed \in BOOLEAN
    /\ other \in [pc : {"idle", "widening", "done"}, version : 0 .. Present, types : Widths]
    /\ call.pc \in {"plan", "count", "sample", "band", "order", "probe", "rows", "total",
                    "recount", "check", "done"}
    /\ call.attempt \in 1 .. 2
    /\ call.types \in Widths
    /\ call.counted \in 0 .. MaxRows \cup {Unknown}
    /\ call.outcome \in {"none", "ok", "failed", "types", "unplanned"}

Answered == call.pc = "done" /\ call.outcome = "ok"

\* The order every window is cut from: by key, then by place in the file; or,
\* unsorted, by place.
Order(v) ==
    IF ask.sorted THEN SortedBy(v, [i \in DOMAIN file[v] |-> i], Matching(v)) ELSE InOrder(v)

\* Whatever plan a window is read by, with however many partitions, whatever
\* the sample and however ties fall, it is cut from the one order of the rows
\* of one content the file has had: so windows of an unchanged file neither
\* repeat a row nor leave one out.
WindowIsASlice ==
    Answered => call.window.rows = Window(Order(call.window.version), ask.offset, ask.limit)

\* The total an answer reports is that of a content the file has had, and
\* of the content the window was cut from when one and the same pass, or a
\* pair of passes, gave both.
CountIsExact ==
    Answered => /\ \E v \in 1 .. Present : call.counted = Cardinality(Matching(v))
                /\ ask.sorted /\ Read = "InFileOrder"
                       => call.counted = Cardinality(Matching(call.window.version))

\* What a grid shows is one order of one content, and its total the total.
GridIsTheFile == WindowIsASlice /\ CountIsExact

\* An answer over a streamed file that did not change was read with types
\* that hold every value of the file, those past the window included: two
\* windows of it never disagree on a column's type.
TypesHoldTheFile ==
    Answered /\ kind = "streamed" /\ Present = 1 => call.types = Whole(1)

\* A scan fails over a value that does not fit only if the file has changed,
\* or what had been learned of it was lost, while it ran.
FailsForCause ==
    call.pc = "done" /\ call.outcome = "types" => Present > 1 \/ narrowed

\* A value is met by a type that holds it, or the scan fails for a cause.
TypesFit == TypesHoldTheFile /\ FailsForCause

\* The schema remembered for a version of a file only ever widens
\* (src/src/format/json.rs: "so its schema only ever widens").
SchemaOnlyWidens ==
    [][\A v \in Versions : known[v] # Unknown /\ known'[v] # Unknown => known'[v] >= known[v]]_vars
=============================================================================
