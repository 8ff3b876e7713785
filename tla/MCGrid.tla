------------------------------- MODULE MCGrid -------------------------------
(* Small tables of every kind, and the windows asked for of them.          *)
EXTENDS GridScan

Row(key, match, width) == [key |-> key, match |-> match, width |-> width]

Listed == {Row(1, TRUE, 0), Row(2, TRUE, 0), Row(Null, TRUE, 0), Row(1, FALSE, 0)}
Values == {Row(1, TRUE, 0), Row(2, TRUE, 1), Row(1, TRUE, 2)}

UpTo(rows, n) == UNION {[1 .. m -> rows] : m \in 0 .. n}

\* Bound: three streamed rows differ; the first and the last width have one key.
Different == {rows \in [1 .. 3 -> Values] : \A i, j \in 1 .. 3 : i # j => rows[i] # rows[j]}

MCTables ==
    [kind : {"csv"}, rows : UpTo(Listed, 2) \cup [1 .. 3 -> Listed \ {Row(Null, TRUE, 0)}]
                             \cup [1 .. 4 -> {Row(1, TRUE, 0), Row(2, TRUE, 0)}]]
        \cup [kind : {"parquet"}, rows : UpTo(Listed, 2) \cup [1 .. 3 -> Listed \ {Row(1, FALSE, 0)}]]
        \cup [kind : {"memory"}, rows : UpTo(Listed, 2)]
        \cup [kind : {"streamed"}, rows : UpTo(Values, 2) \cup Different]

Ask(offset, limit, sorted, descending, needs) ==
    [offset |-> offset, limit |-> limit, sorted |-> sorted, descending |-> descending, needs |-> needs]

MCAsks == {Ask(0, 1, TRUE, FALSE, 0), Ask(1, 1, TRUE, TRUE, 0), Ask(1, 2, TRUE, FALSE, 0),
           Ask(2, 2, TRUE, TRUE, 0), Ask(1, 1, FALSE, FALSE, 0), Ask(0, 1, TRUE, FALSE, 1)}
=============================================================================
