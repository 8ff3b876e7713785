----------------------------- MODULE ColumnFilter -----------------------------
(***************************************************************************)
(* What a column filter of the grid means in the three places that answer  *)
(* one: the Arrow kernels of the local reader (src/src/engine/mod.rs), the *)
(* SQL sent to DataFusion (src/src/engine/sql.rs) and the SQL sent to a    *)
(* database (src/src/engine/database.rs); and what the grid does with the  *)
(* rows that pass: sort, window, projection, profile.                      *)
(*                                                                         *)
(* A cell is SqlNull or the text it prints as, in ASCII codes; the         *)
(* numbers of a numeric column are read back from their text, in tenths.   *)
(***************************************************************************)
EXTENDS Integers, Sequences, FiniteSets, SequencesExt

SqlNull == <<-1>>  \* no text

\* The characters that mean something to a filter.
Space == 32
Hash == 35
Percent == 37
Comma == 44
Dot == 46
Backslash == 92
Underscore == 95
Zed == 90
NaN == <<78>>      \* "NaN", which a float column prints and a filter may say

\* num_class and col_kind: the kinds of column, by how they compare.
IntKinds == {"int"}
RealKinds == {"float"}
Numeric == IntKinds \cup RealKinds

\* Instants without a time zone print with as many digits of a fraction as they
\* need, and those in UTC with a Z after it.
Instants == {"stamp", "stamptz"}

FilterOps == {"eq", "ne", "lt", "le", "gt", "ge", "contains", "notcontains", "startswith",
              "endswith", "in", "isnull", "notnull"}
Unary == {"isnull", "notnull"}
Textual == {"contains", "notcontains", "startswith", "endswith", "in"}

Digits(t) == t # <<>> /\ \A i \in DOMAIN t : t[i] \in 48..57
ValueOf(t) == FoldLeft(LAMBDA n, c : 10 * n + (c - 48), 0, t)

NotANumber == -1
Infinite == 1000000  \* above every number: NaN in the total order of floats

\* str::parse::<i64>, in tenths.
ParseInt(t) == IF Digits(t) THEN 10 * ValueOf(t) ELSE NotANumber

\* str::parse::<f64>, in tenths.
ParseFloat(t) ==
  IF t = NaN THEN Infinite
  ELSE IF Digits(t) THEN 10 * ValueOf(t)
  ELSE IF Len(t) > 2 /\ t[Len(t) - 1] = Dot /\ Digits(Front(Front(t))) /\ Digits(<<Last(t)>>)
  THEN 10 * ValueOf(Front(Front(t))) + (Last(t) - 48)
  ELSE NotANumber

\* The instant that a text says, in tenths of a second.
InstantOf(t) ==
  IF t = <<>> THEN NotANumber
  ELSE IF Last(t) = Zed THEN ParseFloat(Front(t))
  ELSE ParseFloat(t)

\* Strings order by their bytes.
TextBefore(s, t) ==
  \/ s # t /\ IsPrefix(s, t)
  \/ \E i \in DOMAIN s \cap DOMAIN t :
       /\ SubSeq(s, 1, i - 1) = SubSeq(t, 1, i - 1)
       /\ s[i] < t[i]

\* The comparison kernels, of two values of which the first comes before the second,
\* or after it.
Compare(op, before, after) ==
  CASE op = "eq" -> ~before /\ ~after
    [] op = "ne" -> before \/ after
    [] op = "lt" -> before
    [] op = "le" -> ~after
    [] op = "gt" -> after
    [] op = "ge" -> ~before
CompareNumbers(op, m, n) == Compare(op, m < n, n < m)
CompareText(op, s, t) == Compare(op, TextBefore(s, t), TextBefore(t, s))

Within(s, t) == \E i \in 1..(Len(t) - Len(s) + 1) : SubSeq(t, i, i + Len(s) - 1) = s

\* The members of a comma-separated list, trimmed; empty ones are dropped.
Trimmed(t) ==
  LET solid == {i \in DOMAIN t : t[i] # Space}
  IN IF solid = {} THEN <<>>
     ELSE SubSeq(t, CHOOSE i \in solid : \A j \in solid : i <= j,
                    CHOOSE i \in solid : \A j \in solid : j <= i)
Members(t) ==
  LET cuts == {0, Len(t) + 1} \cup {i \in DOMAIN t : t[i] = Comma}
      between == {p \in cuts \X cuts : p[1] < p[2] /\ \A k \in cuts : ~(p[1] < k /\ k < p[2])}
  IN {Trimmed(SubSeq(t, p[1] + 1, p[2] - 1)) : p \in between} \ {<<>>}

\* The tests on text that no kernel does.
TextTest(op, t, value) ==
  CASE op = "contains" -> Within(value, t)
    [] op = "notcontains" -> ~Within(value, t)
    [] op = "startswith" -> IsPrefix(value, t)
    [] op = "endswith" -> IsSuffix(value, t)
    [] op = "in" -> t \in Members(value)

\* column_mask, for one cell: null tests first, then numbers when the column
\* and the value are numbers, then text.  A null passes no other test.
ColumnMask(kind, cell, op, value) ==
  IF op \in Unary THEN (cell = SqlNull) = (op = "isnull")
  ELSE IF cell = SqlNull THEN FALSE
  ELSE IF kind \in Numeric /\ op \notin Textual /\ ParseFloat(value) # NotANumber
  THEN CompareNumbers(op, ParseFloat(cell), ParseFloat(value))
  ELSE IF op \in Textual THEN TextTest(op, cell, value)
  ELSE CompareText(op, cell, value)

-----------------------------------------------------------------------------
(***************************************************************************)
(* SQL.  `t LIKE pattern ESCAPE esc` is external: % stands for any text, _ *)
(* for one character, and a character after esc for itself.  A comparison  *)
(* with a null is not true.                                                *)
(***************************************************************************)

\* A pattern is read into what each of its parts matches.
AnyText == [any |-> TRUE, one |-> FALSE, char |-> 0]
OneChar == [any |-> FALSE, one |-> TRUE, char |-> 0]
Only(c) == [any |-> FALSE, one |-> FALSE, char |-> c]
Parts(pattern, esc) ==
  LET step(acc, c) ==
        IF acc.escaped THEN [parts |-> Append(acc.parts, Only(c)), escaped |-> FALSE]
        ELSE IF c = esc THEN [acc EXCEPT !.escaped = TRUE]
        ELSE [acc EXCEPT !.parts =
                Append(@, IF c = Percent THEN AnyText ELSE IF c = Underscore THEN OneChar ELSE Only(c))]
  IN FoldLeft(step, [parts |-> <<>>, escaped |-> FALSE], pattern).parts

\* The ends in t of the texts that a prefix of the pattern matches.
Like(t, pattern, esc) ==
  LET step(ends, p) ==
        IF p.any THEN UNION {e..Len(t) : e \in ends}
        ELSE {e + 1 : e \in {e \in ends : e < Len(t) /\ (p.one \/ t[e + 1] = p.char)}}
  IN Len(t) \in FoldLeft(step, {0}, Parts(pattern, esc))

\* Mutant: the wildcards are escaped, and the escape character is not.
EscapeWildcards(v, esc) ==
  FoldLeft(LAMBDA out, c : out \o IF c \in {Percent, Underscore} THEN <<esc, c>> ELSE <<c>>, <<>>, v)

\* like_escape, in both files.
LikeEscape(v, esc) ==
  FoldLeft(LAMBDA out, c : out \o IF c \in {esc, Percent, Underscore} THEN <<esc, c>> ELSE <<c>>,
           <<>>, v)

\* The LIKE tests of both builders.
LikeTest(op, t, value, esc) ==
  LET literal == LikeEscape(value, esc)
  IN CASE op = "contains" -> Like(t, <<Percent>> \o literal \o <<Percent>>, esc)
       [] op = "notcontains" -> ~Like(t, <<Percent>> \o literal \o <<Percent>>, esc)
       [] op = "startswith" -> Like(t, literal \o <<Percent>>, esc)
       [] op = "endswith" -> Like(t, <<Percent>> \o literal, esc)
       [] op = "in" -> t \in Members(value)

\* The text tests of SQL, whichever the builder.
SqlText(cell, op, value, esc) ==
  IF op \in Unary THEN (cell = SqlNull) = (op = "isnull")
  ELSE cell # SqlNull /\ LikeTest(op, cell, value, esc)

\* build_where of sql.rs: a comparison is with a literal that DataFusion
\* coerces to the column's type.
SqlWhere(kind, cell, op, value) ==
  IF op \in Unary \cup Textual THEN SqlText(cell, op, value, Backslash)
  ELSE cell # SqlNull /\
    IF kind \in Numeric THEN CompareNumbers(op, ParseFloat(cell), ParseFloat(value))
    ELSE IF kind \in Instants THEN CompareNumbers(op, InstantOf(cell), InstantOf(value))
    ELSE CompareText(op, cell, value)

\* A literal that cannot be coerced fails the query: a fraction or a text for
\* an integer column, a text for a column of floats or of instants.
Coerces(kind, op, value) ==
  op \notin Unary \cup Textual =>
    /\ kind \in IntKinds => ParseInt(value) # NotANumber
    /\ kind \in RealKinds => ParseFloat(value) # NotANumber
    /\ kind \in Instants => InstantOf(value) # NotANumber

\* build_where of database.rs: an integer is bound as one, another number as a
\* float, and the rest is compared as text.
Bound(kind, value) ==
  IF kind \in IntKinds /\ ParseInt(value) # NotANumber THEN ParseInt(value)
  ELSE IF kind \in Numeric THEN ParseFloat(value)
  ELSE NotANumber
DatabaseWhere(kind, cell, op, value) ==
  IF op \in Unary \cup Textual THEN SqlText(cell, op, value, Hash)
  ELSE cell # SqlNull /\ IF Bound(kind, value) # NotANumber
                      THEN CompareNumbers(op, ParseFloat(cell), Bound(kind, value))
                      ELSE CompareText(op, cell, value)

-----------------------------------------------------------------------------
(***************************************************************************)
(* What the grid does with batches of rows.  A row is [row, cell]: which   *)
(* row of the source it is, and what it has in the column looked at.       *)
(***************************************************************************)
Least(m, n) == IF m < n THEN m ELSE n

\* The rows that a window should have.
Slice(rows, offset, limit) == SubSeq(rows, offset + 1, Least(Len(rows), offset + limit))

\* window_batches: batches before the window are passed over, the first and the
\* last are cut.  truncate_batches and RowBatch::first are this from the start.
WindowBatches(batches, offset, limit) ==
  LET step(acc, b) ==
        IF acc.left = 0 THEN acc
        ELSE IF acc.skip >= Len(b) THEN [acc EXCEPT !.skip = @ - Len(b)]
        ELSE LET take == Least(Len(b) - acc.skip, acc.left)
             IN [skip |-> 0, left |-> acc.left - take,
                 out |-> Append(acc.out, SubSeq(b, acc.skip + 1, acc.skip + take))]
  IN FoldLeft(step, [skip |-> offset, left |-> limit, out |-> <<>>], batches).out
TruncateBatches(batches, limit) == WindowBatches(batches, 0, limit)

\* The order of a column: numbers as numbers, NaN after them, instants as
\* instants, the rest by bytes.
CellBefore(kind, a, b) ==
  IF kind \in Numeric THEN ParseFloat(a) < ParseFloat(b)
  ELSE IF kind \in Instants THEN InstantOf(a) < InstantOf(b)
  ELSE TextBefore(a, b)

\* The order of what a column prints, but for numbers.
PrintedBefore(kind, a, b) ==
  IF kind \in Numeric THEN ParseFloat(a) < ParseFloat(b) ELSE TextBefore(a, b)

\* sort_to_indices and ties_in_read_order: nulls last whatever the direction,
\* and rows that tie in the order they were read.
Sorted(kind, descending, rows) ==
  LET before(i, j) ==
        \E a \in {rows[i].cell}, b \in {rows[j].cell} :
           IF a = b THEN i < j
           ELSE IF a = SqlNull \/ b = SqlNull THEN b = SqlNull
           ELSE IF descending THEN CellBefore(kind, b, a) ELSE CellBefore(kind, a, b)
      order == SetToSortSeq(DOMAIN rows, before)
  IN [i \in DOMAIN rows |-> rows[order[i]]]

\* combined_mask and filter_batches: a row passes every filter.
FilterBatches(kind, batches, filters) ==
  SelectSeq(FlattenSeq(batches),
            LAMBDA r : \A f \in filters : ColumnMask(kind, r.cell, f.op, f.value))

\* apply_scan.
ApplyScan(kind, batches, spec) ==
  LET matching == FilterBatches(kind, batches, spec.filters)
      ordered == IF spec.sort = "none" THEN matching
                 ELSE Sorted(kind, spec.sort = "descending", matching)
      start == Least(spec.offset, Len(ordered))
  IN [rows |-> SubSeq(ordered, start + 1, start + Least(spec.limit, Len(ordered) - start)),
      matched |-> Len(matching)]

\* is_plain_window
IsPlainWindow(spec) == spec.sort = "none" /\ spec.filters = {}

\* project_rows: the columns asked for that are there, and all when none is.
ProjectRows(columns, asked) ==
  LET known == SelectSeq(asked, LAMBDA c : c \in Range(columns))
  IN IF known = <<>> THEN columns ELSE known

\* profile_columns, for one column: what is not a finite number is not the
\* least or the greatest of a column of floats.
ProfileColumn(kind, cells, distinctCap, sampleN) ==
  LET present == SelectSeq(cells, LAMBDA c : c # SqlNull)
      ranked == IF kind \in RealKinds THEN Range(present) \ {NaN} ELSE Range(present)
  IN [nulls |-> Len(cells) - Len(present),
      distinct |-> Least(Cardinality(Range(present)), distinctCap),
      capped |-> \E i \in DOMAIN present :
                   Cardinality(Range(SubSeq(present, 1, i - 1))) >= distinctCap,
      sample |-> SubSeq(present, 1, Least(sampleN, Len(present))),
      min |-> {c \in ranked : \A d \in ranked : ~PrintedBefore(kind, d, c)},
      max |-> {c \in ranked : \A d \in ranked : ~PrintedBefore(kind, c, d)}]
=============================================================================
