----------------------------- MODULE IcebergPrune -----------------------------
(***************************************************************************)
(* Which data files and row groups of an Iceberg table a filtered scan     *)
(* does not read (src/src/iceberg.rs), and what their writer records of    *)
(* them.  Pruning must be conservative: what it leaves out has no row the  *)
(* filter of ColumnFilter passes.                                          *)
(*                                                                         *)
(* A data file is a sequence of row groups, each a sequence of cells of    *)
(* the filtered column.                                                    *)
(***************************************************************************)
EXTENDS ColumnFilter

\* The Arrow types that matter.
Unmapped == {"nested"}
Kinds == Numeric \cup {"text"} \cup Instants \cup Unmapped

\* A bound that is not recorded, or cannot be decoded; and one as it prints.
Missing == [known |-> FALSE, text |-> <<>>]
At(t) == [known |-> TRUE, text |-> t]

-----------------------------------------------------------------------------
(***************************************************************************)
(* External: what a writer records of cells.  "all" is everything, "short" *)
(* has bounds cut to one character (the upper one raised), "counts" has no *)
(* bounds, "none" has nothing.                                             *)
(***************************************************************************)
Recorded == {"all", "short", "counts", "none"}

Ranked(cells) == Range(cells) \ {SqlNull, NaN}
Lowest(kind, cells) ==
  CHOOSE a \in Ranked(cells) : \A b \in Ranked(cells) : ~CellBefore(kind, b, a)
Highest(kind, cells) ==
  CHOOSE a \in Ranked(cells) : \A b \in Ranked(cells) : ~CellBefore(kind, a, b)

Short(t) == <<t[1]>>
Raised(t) == IF Len(t) = 1 THEN t ELSE <<t[1] + 1>>
Lower(kind, cells, recorded) ==
  IF recorded \in {"counts", "none"} \/ Ranked(cells) = {} THEN Missing
  ELSE IF recorded = "short" /\ kind = "text" THEN At(Short(Lowest(kind, cells)))
  ELSE At(Lowest(kind, cells))
UpperBound(kind, cells, recorded) ==
  IF recorded \in {"counts", "none"} \/ Ranked(cells) = {} THEN Missing
  ELSE IF recorded = "short" /\ kind = "text" THEN At(Raised(Highest(kind, cells)))
  ELSE At(Highest(kind, cells))

Count(cells, What(_)) == Len(SelectSeq(cells, What))
Statistics(kind, cells, recorded) ==
  [rows |-> Len(cells),
   counted |-> recorded # "none",
   nulls |-> Count(cells, LAMBDA c : c = SqlNull),
   nans |-> Count(cells, LAMBDA c : c = NaN),
   lower |-> Lower(kind, cells, recorded),
   upper |-> UpperBound(kind, cells, recorded)]

\* The partition transforms: of a value as the writer has it.
Transforms == {"identity", "bucket2", "bucket3", "truncate", "day", "hour", "other"}
Widths == [truncate |-> 2, day |-> 200, hour |-> 100]
Unknown == [known |-> FALSE, is |-> 0]
Is(n) == [known |-> TRUE, is |-> n]

-----------------------------------------------------------------------------
(***************************************************************************)
(* Statistics.                                                             *)
(***************************************************************************)

\* parse_filter_val: a number for a numeric column, and not NaN.
ParseFilterVal(kind, value) ==
  IF kind \in Unmapped \/ (kind \in Numeric /\ ParseFloat(value) \in {NotANumber, Infinite})
  THEN Missing ELSE At(value)

\* pcmp: numbers as numbers, the rest as text, instants too.
Before(kind, a, b) == PrintedBefore(kind, a.text, b.text)

\* range_might_match
RangeMightMatch(kind, op, lower, upper, value) ==
  CASE op = "eq" -> ~Before(kind, value, lower) /\ ~Before(kind, upper, value)
    [] op = "ne" -> \/ Before(kind, lower, value) \/ Before(kind, value, lower)
                    \/ Before(kind, upper, value) \/ Before(kind, value, upper)
    [] op = "lt" -> Before(kind, lower, value)
    [] op = "le" -> ~Before(kind, value, lower)
    [] op = "gt" -> Before(kind, value, upper)
    [] op = "ge" -> ~Before(kind, upper, value)
    [] OTHER -> TRUE

\* Mutant: a chunk of nulls is left out whatever the filter.
NullsNeverMatch(kind, op, allNull, nanFree, lower, upper, value) ==
  /\ ~allNull
  /\ \/ op = "contains"
     \/ kind \in RealKinds /\ op \in {"ne", "gt", "ge"} /\ ~nanFree
     \/ ~(lower.known /\ upper.known /\ value.known)
     \/ RangeMightMatch(kind, op, lower, upper, value)

\* chunk_might_match: a null matches nothing but `is null`; NaN is above every
\* bound.
ChunkMightMatch(kind, op, allNull, nanFree, lower, upper, value) ==
  IF allNull THEN op = "isnull"
  ELSE \/ op = "contains"
       \/ kind \in RealKinds /\ op \in {"ne", "gt", "ge"} /\ ~nanFree
       \/ ~(lower.known /\ upper.known /\ value.known)
       \/ RangeMightMatch(kind, op, lower, upper, value)

\* file_might_match
FileMightMatch(kind, f, stats) ==
  \/ kind \in Unmapped
  \/ ChunkMightMatch(kind, f.op, stats.rows > 0 /\ stats.counted /\ stats.nulls >= stats.rows,
                     stats.counted /\ stats.nans = 0, stats.lower, stats.upper,
                     ParseFilterVal(kind, f.value))

\* select_row_groups: the row groups of a file to read.  Only integers and text
\* are looked at, in a file that has the column.
SelectRowGroups(kind, filters, groups, present, recorded) ==
  LET planned == {f \in filters : /\ kind \in IntKinds \cup {"text"} /\ present
                                  /\ ParseFilterVal(kind, f.value).known}
      survives(g) ==
        \E stats \in {Statistics(kind, g, recorded)} :
           \A f \in planned :
             ChunkMightMatch(kind, f.op, stats.rows > 0 /\ stats.counted /\ stats.nulls >= stats.rows,
                             TRUE, stats.lower, stats.upper, At(f.value))
  IN IF planned = {} THEN DOMAIN groups ELSE {i \in DOMAIN groups : survives(groups[i])}

-----------------------------------------------------------------------------
(***************************************************************************)
(* Partitions.                                                             *)
(***************************************************************************)

\* transform_value: the partition a value is in, when the transform and the
\* type are ones the reader computes.  A hash is external: any number does.
TransformValue(transform, kind, value) ==
  IF kind \in IntKinds /\ ParseInt(value) # NotANumber
  THEN LET n == ParseInt(value) \div 10
       IN CASE transform = "identity" -> Is(n)
            [] transform = "bucket2" -> Is(n % 2)
            [] transform = "bucket3" -> Is(n % 3)
            [] transform = "truncate" -> Is(n - (n % Widths.truncate))
            [] OTHER -> Unknown
  ELSE IF kind = "text"
  THEN CASE transform = "identity" -> [known |-> TRUE, is |-> value]
         [] transform = "truncate" -> [known |-> TRUE, is |-> SubSeq(value, 1, 1)]
         [] transform = "bucket2" -> Is(Len(value) % 2)
         [] transform = "bucket3" -> Is(Len(value) % 3)
         [] OTHER -> Unknown
  ELSE IF kind \in Instants /\ transform \in {"day", "hour"} /\ InstantOf(value) # NotANumber
  THEN Is(InstantOf(value) \div Widths[transform])
  ELSE Unknown

\* partition_might_match, with the table's default partition spec, of one field
\* over the filtered column ("none" when it is not partitioned by it).
PartitionMightMatch(transform, kind, f, partition) ==
  \/ f.op # "eq" \/ transform = "none" \/ kind \in Unmapped
  \/ ~TransformValue(transform, kind, f.value).known \/ ~partition.known
  \/ TransformValue(transform, kind, f.value) = partition

\* keep_mask, for one file.
Kept(kind, filters, transform, file) ==
  \A f \in filters :
    /\ FileMightMatch(kind, f, file.stats)
    /\ PartitionMightMatch(transform, kind, f, file.partition)
=============================================================================
