--------------------------- MODULE GridScan_proofs ---------------------------
(***************************************************************************)
(* Proofs about reads of files.                                            *)
(*   The scan of a grid window: the types a streamed table is read with    *)
(*   hold all of its values, a scan fails over a value only for a cause,   *)
(*   and the total is exact, for any tables, windows and number of changes *)
(*   to the file.                                                          *)
(*   The reads of one file: what each says is so, of the version that it   *)
(*   began with.                                                           *)
(***************************************************************************)
EXTENDS GridScan, FileReads, FiniteSetTheorems, TLAPS

-----------------------------------------------------------------------------
(* The largest of some numbers.                                            *)

\* A set of naturals has a least element.
LEMMA LeastNatural ==
  ASSUME NEW T \in SUBSET Nat, T # {}
  PROVE  \E n \in T : \A k \in T : n <= k
<1>1. \E n \in T : \A k \in T : ~(<<k, n>> \in OpToRel(<, Nat))
  <2> T \subseteq Nat
    OBVIOUS
  <2> QED BY NatLessThanWellFounded, WFMin, Zenon
<1>2. ASSUME NEW k \in Nat, NEW n \in Nat, k < n PROVE <<k, n>> \in OpToRel(<, Nat)
  BY <1>2, Zenon DEF OpToRel
<1>3. \E n \in T : \A k \in T : ~(k < n)
  BY <1>1, <1>2, Zenon
<1> QED BY <1>3

\* A set of naturals that are at most m has a largest element.
LEMMA Largest ==
  ASSUME NEW S \in SUBSET Nat, S # {}, NEW m \in Nat, \A s \in S : s <= m
  PROVE  Max(S) \in S /\ \A s \in S : s <= Max(S)
<1> DEFINE T == {n \in Nat : \A s \in S : s <= n}
<1>1. PICK n \in T : \A k \in T : n <= k
  <2> m \in T /\ T \in SUBSET Nat
    OBVIOUS
  <2> QED BY LeastNatural
<1>2. T \subseteq Nat
  OBVIOUS
<1>3. n = 0 => \E s \in S : s = n
  <2> SUFFICES ASSUME n = 0 PROVE \E s \in S : s = n
    OBVIOUS
  <2>1. PICK s \in S : TRUE
    OBVIOUS
  <2>2. s = 0
    BY <1>1, <2>1
  <2> QED BY <1>1, <2>1, <2>2
<1>4. n # 0 => \E s \in S : s = n
  <2> SUFFICES ASSUME n # 0 PROVE \E s \in S : s = n
    OBVIOUS
  <2>1. n - 1 \in Nat /\ n - 1 \notin T
    BY <1>1
  <2>2. PICK s \in S : s > n - 1
    BY <2>1
  <2>3. s = n
    BY <1>1, <2>2
  <2> QED BY <1>1, <2>2, <2>3
<1>5. \E x \in S : \A y \in S : x >= y
  BY <1>2, <1>1, <1>3, <1>4
<1>6. Max(S) \in S /\ \A y \in S : Max(S) >= y
  BY <1>5, Zenon DEF Max
<1> QED BY <1>6

\* The values of a finite sequence of naturals are bounded.
LEMMA Bounded ==
  ASSUME NEW n \in Nat, NEW f, \A i \in 1 .. n : f[i] \in Nat
  PROVE  \E m \in Nat : \A i \in 1 .. n : f[i] <= m
<1> DEFINE Fits(k) == \E m \in Nat : \A i \in 1 .. k : f[i] <= m
           T == {k \in 0 .. n : ~Fits(k)}
<1> SUFFICES ASSUME ~Fits(n) PROVE FALSE
  OBVIOUS
<1>1. PICK k \in T : \A j \in T : k <= j
  <2> T \in SUBSET Nat /\ n \in T
    OBVIOUS
  <2> HIDE DEF T
  <2> QED BY LeastNatural
<1>2. k \in 0 .. n /\ ~Fits(k)
  OBVIOUS
<1>3. k # 0
  <2> Fits(0)
    <3> \A i \in 1 .. 0 : f[i] <= 0
      OBVIOUS
    <3> QED BY 0 \in Nat
  <2> HIDE DEF Fits
  <2> QED BY <1>2
<1>4. k - 1 \in 0 .. n /\ k - 1 \notin T /\ k \in 1 .. n
  <2> k - 1 \in 0 .. n /\ ~(k <= k - 1)
    BY <1>2, <1>3
  <2> HIDE DEF T
  <2> QED BY <1>1, <1>2, <1>3
<1>5. PICK m \in Nat : \A i \in 1 .. (k - 1) : f[i] <= m
  BY <1>4
<1>6. f[k] \in Nat
  BY <1>4
<1>7. \A i \in 1 .. k : f[i] <= m + f[k]
  <2> SUFFICES ASSUME NEW i \in 1 .. k PROVE f[i] <= m + f[k]
    OBVIOUS
  <2>1. CASE i = k
    BY <2>1, <1>6
  <2>2. CASE i # k
    <3> i \in 1 .. (k - 1) /\ i \in 1 .. n
      BY <2>2, <1>2
    <3> QED BY <1>5, <1>6
  <2> QED BY <2>1, <2>2
<1>8. Fits(k)
  BY <1>6, <1>7, m + f[k] \in Nat
<1> QED BY <1>2, <1>8

-----------------------------------------------------------------------------
(* What the invariant says.                                                *)

FileIsSound == file \in Seq(Seq(Rows)) /\ Present \in Versions

\* The other request's read of the first version infers no more than it holds.
OtherIsSound ==
  /\ other \in [pc : {"idle", "widening", "done"}, version : 0 .. Present, types : Nat]
  /\ other.pc = "widening" => other.version \in 1 .. Present
  /\ other.version = 1 => other.types <= Whole(1)

\* No schema remembered for the first version is wider than the version.
KnownIsSound(k, n) ==
  /\ k \in [Versions -> Nat \cup {Unknown}]
  /\ k[1] <= Whole(1)
  /\ n \in BOOLEAN

CallShape(c) ==
  c \in [pc : {"plan", "count", "sample", "band", "order", "probe", "rows", "total",
               "recount", "check", "done"},
         attempt : {1, 2}, table : Nat, types : Nat, widened : BOOLEAN, unplanned : BOOLEAN,
         counting : {"no", "running", "done", "failed"}, counted : Nat \cup {Unknown},
         band : {c.band}, window : {c.window},
         outcome : {"none", "ok", "failed", "types", "unplanned"}]

\* The stages a scan goes through, of a sorted window and of an unsorted one.
Stages(c) ==
  /\ c.pc = "plan" => c.counting = "no" /\ ~c.widened /\ c.counted = Unknown
  /\ c.pc \in {"sample", "band", "order", "probe"} => ask.sorted
  /\ c.pc = "probe" => kind \notin {"streamed", "csv"}
  /\ c.pc = "count" => ~CountedBeside
  /\ c.pc = "rows" => ~ask.sorted
  /\ c.pc \in {"rows", "total", "recount"} /\ CountedBeside => c.counting # "no"
  /\ c.counting # "no" \/ c.widened \/ c.attempt = 2 => kind = "streamed"
  /\ c.counting = "failed" => c.widened
  /\ c.unplanned => c.pc \in {"check", "done"}

\* The types a streamed file that has not changed is read with are those of
\* some of its rows, and of all once a pass has been over all of them.
TypesSoFar(c) ==
  kind = "streamed" /\ Present = 1 =>
    /\ c.types <= Whole(1)
    /\ c.pc = "band" \/ c.counting = "done" => c.types = Whole(1)
    /\ c.pc \in {"total", "recount"} /\ ask.sorted => c.types = Whole(1)
    /\ c.pc = "done" /\ c.outcome = "ok" => c.types = Whole(1)

\* What a pass has learned of such a file is remembered, and enough for the
\* second attempt, unless another request has undone it.
Learned(c, k, n) ==
  /\ kind = "streamed" /\ Present = 1 /\ ~n =>
       /\ c.widened \/ c.attempt = 2 => k[1] = Whole(1)
       /\ c.attempt = 2 /\ c.pc \notin {"plan", "done"}
            => c.types = Whole(1) /\ c.counting # "failed"
  /\ c.pc = "done" /\ c.outcome = "types" => Present > 1 \/ n

IsCounted(n, v) == v \in 1 .. Present /\ n = Cardinality(Matching(v))

\* A count is that of a content the file has had.
CountsSoFar(c) ==
  /\ c.pc \notin {"plan", "done"} => c.table \in 1 .. Present
  /\ c.counted # Unknown => \E v \in 1 .. Present : IsCounted(c.counted, v)
  /\ c.pc = "band" => IsCounted(c.band.matched, c.band.version)
  /\ c.pc = "done" /\ c.outcome = "ok" => c.counted # Unknown
  /\ ask.sorted /\ kind = "csv" =>
       /\ c.pc # "recount"
       /\ c.pc = "total" \/ (c.pc = "done" /\ c.outcome = "ok")
            => IsCounted(c.counted, c.window.version)

CallInv(c, k, n) ==
  CallShape(c) /\ Stages(c) /\ TypesSoFar(c) /\ Learned(c, k, n) /\ CountsSoFar(c)

GridInv ==
  /\ kind \in Kinds
  /\ FileIsSound
  /\ OtherIsSound
  /\ KnownIsSound(known, narrowed)
  /\ CallInv(call, known, narrowed)

-----------------------------------------------------------------------------
(* What the operators of the scan return.                                  *)

LEMMA SmallerIs ==
  ASSUME NEW a \in Int, NEW b \in Int
  PROVE  Smaller(a, b) \in {a, b} /\ Smaller(a, b) <= a /\ Smaller(a, b) <= b
BY DEF Smaller, Min

\* The types of some rows are no wider than those of all.
LEMMA InferredIs ==
  ASSUME FileIsSound, NEW v \in 1 .. Present, NEW n \in Int
  PROVE  Inferred(v, n) \in Nat /\ Whole(v) \in Nat /\ Inferred(v, n) <= Whole(v)
<1> DEFINE len == Len(file[v])
           W(k) == {file[v][i].width : i \in 1 .. Smaller(k, len)} \cup {0}
<1>1. file[v] \in Seq(Rows) /\ len \in Nat
  BY DEF FileIsSound, Present
<1>2. \A i \in 1 .. len : file[v][i].width \in Nat
  <2>1. \A i \in 1 .. len : file[v][i] \in Rows
    BY <1>1
  <2> QED BY <2>1 DEF Rows
<1>3. PICK m \in Nat : \A i \in 1 .. len : file[v][i].width <= m
  <2> DEFINE f == [i \in 1 .. len |-> file[v][i].width]
  <2>1. \A i \in 1 .. len : f[i] \in Nat
    BY <1>2
  <2> HIDE DEF f
  <2>2. \E m \in Nat : \A i \in 1 .. len : f[i] <= m
    BY <1>1, <2>1, Bounded
  <2> QED BY <2>2 DEF f
<1>4. ASSUME NEW k \in Int
      PROVE  /\ W(k) \subseteq W(len) /\ W(k) \in SUBSET Nat /\ W(k) # {}
             /\ \A s \in W(k) : s <= m
  <2>1. \A i \in 1 .. Smaller(k, len) : i \in 1 .. len /\ i \in 1 .. Smaller(len, len)
    BY <1>1, SmallerIs
  <2> QED BY <1>2, <1>3, <2>1
<1>5. Inferred(v, n) = Max(W(n)) /\ Whole(v) = Max(W(len))
  BY DEF Inferred, Whole
<1> HIDE DEF W, len
<1>6. ASSUME NEW k \in Int
      PROVE  Max(W(k)) \in W(k) /\ \A s \in W(k) : s <= Max(W(k))
  BY <1>4, m \in Nat, Largest, Zenon
<1>7. Max(W(n)) \in W(len) /\ Max(W(len)) \in W(len) /\ Max(W(n)) <= Max(W(len))
  <2>1. len \in Int
    BY <1>1
  <2>2. Max(W(n)) \in W(n) /\ W(n) \subseteq W(len)
    BY <1>4, <1>6
  <2>3. Max(W(len)) \in W(len) /\ \A s \in W(len) : s <= Max(W(len))
    BY <2>1, <1>6
  <2> QED BY <2>2, <2>3
<1>8. W(len) \subseteq Nat
  BY <1>1, <1>4
<1> QED BY <1>5, <1>7, <1>8

\* As many rows match as a natural says.
LEMMA MatchingIs ==
  ASSUME FileIsSound, NEW v \in 1 .. Present
  PROVE  Cardinality(Matching(v)) \in Nat
<1>1. file[v] \in Seq(Rows)
  BY DEF FileIsSound, Present
<1>2. Matching(v) \subseteq 1 .. Len(file[v])
  BY <1>1 DEF Matching
<1>3. IsFiniteSet(1 .. Len(file[v]))
  BY <1>1, FS_Interval
<1>4. IsFiniteSet(Matching(v))
  BY <1>2, <1>3, FS_Subset
<1> QED BY <1>4, FS_CardinalityType

\* The file has had a content, and what is remembered of it is a number.
LEMMA Facts ==
  ASSUME GridAssumption, GridInv
  PROVE  /\ Present \in Nat /\ 1 \in 1 .. Present /\ Present \in 1 .. Present
         /\ 1 \in Versions /\ Present \in Versions /\ 1 .. Present \subseteq Versions
         /\ Whole(1) \in Nat /\ Whole(Present) \in Nat
         /\ InferRows \in Nat
         /\ Unknown \notin Nat
<1>1. Present \in Nat /\ 1 \in 1 .. Present /\ Present \in 1 .. Present
  BY DEF GridInv, FileIsSound, Present, Versions, GridAssumption
<1>2. 1 \in Versions /\ Present \in Versions /\ 1 .. Present \subseteq Versions
  BY <1>1 DEF GridInv, FileIsSound, Versions, GridAssumption
<1>3. Whole(1) \in Nat /\ Whole(Present) \in Nat
  BY <1>1, 1 \in Int, InferredIs DEF GridInv
<1> QED BY <1>1, <1>2, <1>3 DEF GridAssumption, Unknown

\* The schema of a version.
LEMMA SchemaIs ==
  ASSUME GridAssumption, GridInv, NEW v \in 1 .. Present
  PROVE  /\ Schema(v) \in Nat
         /\ v = 1 => Schema(v) <= Whole(1)
         /\ v = 1 /\ known[1] = Whole(1) => Schema(v) = Whole(1)
<1>1. Inferred(v, InferRows) \in Nat /\ Inferred(v, InferRows) <= Whole(v)
  BY Facts, InferredIs DEF GridInv
<1>2. v \in Versions
  BY Facts
<1>3. known[v] \in Nat \cup {Unknown} /\ known[1] <= Whole(1)
  BY <1>2 DEF GridInv, KnownIsSound
<1> QED BY <1>1, <1>3, Facts DEF Schema

\* What is remembered of a version, and what it does to the first.
LEMMA RememberKeeps ==
  ASSUME GridAssumption, GridInv, NEW v \in 1 .. Present, NEW types \in Nat,
         v = 1 => types <= Whole(1), Remember(v, types)
  PROVE  /\ KnownIsSound(known', narrowed')
         /\ ~narrowed' => ~narrowed
         /\ ~narrowed' /\ known[1] = Whole(1) => known'[1] = Whole(1)
         /\ v = 1 => known'[1] = types
<1>1. v \in Versions /\ 1 \in Versions /\ Whole(1) \in Nat
  BY Facts
<1>2. known \in [Versions -> Nat \cup {Unknown}] /\ known[1] <= Whole(1) /\ narrowed \in BOOLEAN
  BY DEF GridInv, KnownIsSound
<1>3. known' = [known EXCEPT ![v] = types] /\ narrowed' = (narrowed \/ types < known[v])
  BY DEF Remember
<1>4. known' \in [Versions -> Nat \cup {Unknown}] /\ narrowed' \in BOOLEAN
  BY <1>1, <1>2, <1>3
<1>5. known'[1] = IF v = 1 THEN types ELSE known[1]
  BY <1>1, <1>2, <1>3
<1>6. KnownIsSound(known', narrowed')
  BY <1>2, <1>4, <1>5 DEF KnownIsSound
<1>7. ~narrowed' => ~narrowed
  BY <1>3
<1>8. ASSUME ~narrowed', known[1] = Whole(1) PROVE known'[1] = Whole(1)
  <2>1. CASE v = 1
    <3>1. ~(types < Whole(1)) /\ types <= Whole(1)
      BY <2>1, <1>3, <1>8
    <3>2. types = Whole(1)
      BY <3>1, <1>1
    <3> QED BY <2>1, <3>2, <1>5
  <2>2. CASE v # 1
    BY <2>2, <1>5, <1>8
  <2> QED BY <2>1, <2>2
<1> QED BY <1>5, <1>6, <1>7, <1>8

-----------------------------------------------------------------------------
(* A scan that fails, and the steps of a scan.                             *)

\* What holds of a scan that has just failed, before it is known whether it is
\* planned again.
FailedInv(c, k, n) ==
  /\ CallShape(c) /\ c.outcome \in {"failed", "types", "unplanned"}
  /\ c.widened \/ c.attempt = 2 => kind = "streamed"
  /\ kind = "streamed" /\ Present = 1 => c.types <= Whole(1)
  /\ kind = "streamed" /\ Present = 1 /\ ~n /\ (c.widened \/ c.attempt = 2) => k[1] = Whole(1)
  /\ c.outcome = "types" => c.widened /\ (c.attempt = 2 => Present > 1 \/ n)
  /\ c.unplanned /\ c.pc # "check" => c.counting = "no" /\ c.table \in 1 .. Present
  /\ c.counted # Unknown => \E v \in 1 .. Present : IsCounted(c.counted, v)

\* Planned again, checked, or ended, it is sound.
LEMMA RetryKeeps ==
  ASSUME NEW c, NEW k, NEW n, FailedInv(c, k, n), Whole(1) \in Nat
  PROVE  CallInv(Retry(c), k, n)
<1>1. CASE c.attempt = 1 /\ c.widened
  <2> DEFINE d == Attempt(2)
  <2>1. Retry(c) = d
    BY <1>1 DEF Retry
  <2>2. CallShape(d) /\ Stages(d)
    BY <1>1 DEF FailedInv, CallShape, Stages, Attempt, Unknown
  <2>3. TypesSoFar(d) /\ Learned(d, k, n) /\ CountsSoFar(d)
    BY <1>1 DEF FailedInv, TypesSoFar, Learned, CountsSoFar, Attempt
  <2> QED BY <2>1, <2>2, <2>3 DEF CallInv
<1>2. CASE c.attempt = 1 /\ ~c.widened /\ c.unplanned /\ c.pc # "check"
  <2> DEFINE d == [c EXCEPT !.pc = "check"]
  <2>1. Retry(c) = d
    BY <1>2 DEF Retry
  <2>2. CallShape(d) /\ Stages(d)
    BY <1>2 DEF FailedInv, CallShape, Stages
  <2>3. TypesSoFar(d) /\ Learned(d, k, n) /\ CountsSoFar(d)
    BY <1>2 DEF FailedInv, CallShape, TypesSoFar, Learned, CountsSoFar
  <2> QED BY <2>1, <2>2, <2>3 DEF CallInv
<1>3. CASE ~(c.attempt = 1 /\ c.widened)
           /\ ~(c.attempt = 1 /\ ~c.widened /\ c.unplanned /\ c.pc # "check")
  <2> DEFINE d == [c EXCEPT !.pc = "done", !.counting = "no"]
  <2>1. Retry(c) = d
    BY <1>3 DEF Retry
  <2>2. CallShape(d) /\ Stages(d)
    BY <1>3 DEF FailedInv, CallShape, Stages
  <2>3. TypesSoFar(d) /\ Learned(d, k, n) /\ CountsSoFar(d)
    BY <1>3 DEF FailedInv, CallShape, TypesSoFar, Learned, CountsSoFar
  <2> QED BY <2>1, <2>2, <2>3 DEF CallInv
<1> QED BY <1>1, <1>2, <1>3

\* A step of the scan changes the scan and what is remembered, nothing else.
LEMMA ScanStep ==
  ASSUME GridInv, UNCHANGED <<kind, ask, file, other>>,
         KnownIsSound(known', narrowed'), CallInv(call', known', narrowed')
  PROVE  GridInv'
<1>1. /\ kind' = kind /\ ask' = ask /\ file' = file /\ other' = other
  OBVIOUS
<1>2. Present' = Present /\ Whole(1)' = Whole(1)
  BY <1>1 DEF Present, Whole, Inferred
<1>3. ASSUME NEW m, NEW v PROVE IsCounted(m, v)' <=> IsCounted(m, v)
  BY <1>1, <1>2 DEF IsCounted, Matching
<1>4. kind' \in Kinds /\ FileIsSound' /\ OtherIsSound' /\ KnownIsSound(known, narrowed)'
  BY <1>1, <1>2 DEF GridInv, FileIsSound, OtherIsSound, KnownIsSound
<1>5. CallShape(call)' /\ Stages(call)' /\ TypesSoFar(call)' /\ Learned(call, known, narrowed)'
  BY <1>1, <1>2 DEF CallInv, CallShape, Stages, TypesSoFar, Learned, CountedBeside, Read
<1>6. CountsSoFar(call)'
  BY <1>1, <1>2, <1>3 DEF CallInv, CountsSoFar
<1> QED BY <1>4, <1>5, <1>6 DEF GridInv, CallInv

\* What a table's kind says of the way it is read.
LEMMA ReadIs ==
  ASSUME GridInv
  PROVE  /\ kind = "streamed" <=> Read = "Streamed"
         /\ kind = "csv" <=> Read = "InFileOrder"
         /\ CountedBeside <=> ~ask.sorted /\ kind = "streamed"
         /\ Now = Present \/ (kind = "memory" /\ Now = call.table)
         /\ OnePass \in {"probe", "order"}
         /\ OnePass = "probe" => kind \notin {"streamed", "csv"}
         /\ IF ask.sorted THEN FirstRead \in {"sample", OnePass} ELSE FirstRead = "rows"
BY DEF GridInv, Kinds, Read, CountedBeside, Now, OnePass, FirstRead

-----------------------------------------------------------------------------
(* Each action keeps the invariant.                                        *)

LEMMA PlanInv == ASSUME GridAssumption, GridInv, Plan PROVE GridInv'
<1> DEFINE types == IF kind = "streamed" THEN Schema(Present) ELSE 0
           planned == [call EXCEPT !.table = Present, !.types = types]
<1>1. /\ call.pc = "plan" /\ UNCHANGED <<kind, ask, file, other>>
      /\ IF kind = "streamed" THEN Remember(Present, types) ELSE UNCHANGED <<known, narrowed>>
      /\ call' = IF kind = "streamed" /\ types < ask.needs
                 THEN Failed([planned EXCEPT !.unplanned = TRUE], "unplanned")
                 ELSE [planned EXCEPT
                         !.pc = IF CountedByWindow \/ CountedBeside THEN FirstRead ELSE "count",
                         !.counting = IF CountedBeside THEN "running" ELSE "no"]
  BY DEF Plan
<1>2. /\ types \in Nat
      /\ kind = "streamed" /\ Present = 1 => types <= Whole(1)
      /\ kind = "streamed" /\ Present = 1 /\ known[1] = Whole(1) => types = Whole(1)
  <2> Present \in 1 .. Present /\ Present \in Nat
    BY Facts
  <2> QED BY SchemaIs
<1> HIDE DEF types
<1>3. /\ KnownIsSound(known', narrowed')
      /\ ~narrowed' => ~narrowed
      /\ ~narrowed' /\ known[1] = Whole(1) => known'[1] = Whole(1)
  <2>1. CASE kind = "streamed"
    <3> Present \in 1 .. Present
      BY Facts
    <3> Remember(Present, types) /\ (Present = 1 => types <= Whole(1))
      BY <2>1, <1>1, <1>2
    <3> QED BY <1>2, RememberKeeps
  <2>2. CASE kind # "streamed"
    BY <2>2, <1>1 DEF GridInv
  <2> QED BY <2>1, <2>2
<1>4. /\ CallShape(call) /\ Stages(call) /\ TypesSoFar(call) /\ Learned(call, known, narrowed)
      /\ CountsSoFar(call)
  BY DEF GridInv, CallInv
<1>5. CASE kind = "streamed" /\ types < ask.needs
  <2> DEFINE c == [[planned EXCEPT !.unplanned = TRUE] EXCEPT !.outcome = "unplanned"]
  <2>1. call' = Retry(c)
    BY <1>1, <1>5 DEF Failed
  <2>2. FailedInv(c, known', narrowed')
    BY <1>1, <1>2, <1>3, <1>4, <1>5, Facts DEF FailedInv, CallShape, Stages, Learned
  <2>3. CallInv(call', known', narrowed')
    BY <2>1, <2>2, Facts, RetryKeeps
  <2> QED BY <1>1, <1>3, <2>3, ScanStep
<1>6. CASE ~(kind = "streamed" /\ types < ask.needs)
  <2>1. /\ CallShape(call') /\ call'.table = Present /\ call'.types = types
        /\ call'.pc = IF CountedByWindow \/ CountedBeside THEN FirstRead ELSE "count"
        /\ call'.counting = IF CountedBeside THEN "running" ELSE "no"
        /\ call'.widened = call.widened /\ call'.attempt = call.attempt
        /\ call'.unplanned = call.unplanned /\ call'.counted = call.counted
        /\ call'.outcome = call.outcome
    <3> DEFINE pc == IF CountedByWindow \/ CountedBeside THEN FirstRead ELSE "count"
               counting == IF CountedBeside THEN "running" ELSE "no"
    <3>1. /\ pc \in {"count", "sample", "probe", "order", "rows"}
          /\ counting \in {"running", "no"} /\ Present \in Nat
      BY Facts, ReadIs
    <3>2. call' = [planned EXCEPT !.pc = pc, !.counting = counting]
      BY <1>1, <1>6
    <3> HIDE DEF pc, counting
    <3>3. CallShape(call') /\ call'.pc = pc /\ call'.counting = counting
      BY <1>2, <1>4, <3>1, <3>2, ZenonT(20) DEF CallShape
    <3>4. /\ call'.table = Present /\ call'.types = types
          /\ call'.widened = call.widened /\ call'.attempt = call.attempt
          /\ call'.unplanned = call.unplanned /\ call'.counted = call.counted
          /\ call'.outcome = call.outcome
      BY <1>4, <3>2 DEF CallShape
    <3> QED BY <3>3, <3>4 DEF pc, counting
  <2>2. call'.pc \in {"count", "sample", "probe", "order", "rows"}
    BY <2>1, ReadIs
  <2>3. Stages(call')
    BY <1>1, <1>4, <2>1, <2>2, ReadIs DEF Stages
  <2>4. TypesSoFar(call')
    BY <1>2, <2>1, <2>2 DEF TypesSoFar
  <2>5. Learned(call', known', narrowed')
    BY <1>1, <1>2, <1>3, <1>4, <2>1, <2>2 DEF Learned, Stages
  <2>6. CountsSoFar(call')
    BY <1>1, <1>4, <2>1, <2>2, Facts DEF CountsSoFar, Stages
  <2>7. CallInv(call', known', narrowed')
    BY <2>1, <2>3, <2>4, <2>5, <2>6 DEF CallInv
  <2> QED BY <1>1, <1>3, <2>7, ScanStep
<1> QED BY <1>5, <1>6

\* A full pass that meets nothing has types for the whole file.
LEMMA MeetsIs ==
  ASSUME GridAssumption, GridInv
  PROVE  /\ Meets => kind = "streamed" /\ call.types < Whole(Present)
         /\ ~Meets /\ kind = "streamed" /\ Present = 1 => call.types = Whole(1)
<1>1. call.types \in Nat /\ (kind = "streamed" /\ Present = 1 => call.types <= Whole(1))
  BY DEF GridInv, CallInv, CallShape, TypesSoFar
<1> QED BY <1>1, Facts DEF Meets

\* A version that is read has been the file's.
LEMMA NowIs ==
  ASSUME GridAssumption, GridInv, call.pc \notin {"plan", "done"}
  PROVE  /\ Now \in 1 .. Present /\ IsCounted(Cardinality(Matching(Now)), Now)
         /\ Cardinality(Matching(Now)) \in Nat
<1>1. Now \in 1 .. Present
  BY Facts, ReadIs DEF GridInv, CallInv, CountsSoFar
<1> QED BY <1>1, MatchingIs DEF GridInv, IsCounted

LEMMA CountInv == ASSUME GridAssumption, GridInv, Count PROVE GridInv'
<1>1. /\ call.pc = "count" /\ UNCHANGED Table
      /\ call' = [call EXCEPT !.pc = FirstRead, !.counted = Cardinality(Matching(Now))]
  BY DEF Count
<1>2. CallInv(call, known, narrowed) /\ KnownIsSound(known, narrowed)
  BY DEF GridInv
<1>3. CallShape(call')
  BY <1>1, <1>2, NowIs, ReadIs, ZenonT(20) DEF CallInv, CallShape
<1>4. FirstRead \in {"sample", "probe", "order", "rows"}
  BY ReadIs
<1>5. Stages(call')
  BY <1>1, <1>2, ReadIs DEF CallInv, CallShape, Stages
<1>6. TypesSoFar(call') /\ Learned(call', known, narrowed)
  BY <1>1, <1>2, <1>4 DEF CallInv, CallShape, TypesSoFar, Learned
<1>7. CountsSoFar(call')
  BY <1>1, <1>2, <1>4, NowIs DEF CallInv, CallShape, CountsSoFar
<1> QED BY <1>1, <1>2, <1>3, <1>5, <1>6, <1>7, ScanStep DEF CallInv, Table

LEMMA CountBesideInv == ASSUME GridAssumption, GridInv, CountBeside PROVE GridInv'
<1>1. /\ call.counting = "running" /\ ~Meets /\ UNCHANGED Table
      /\ call' = [call EXCEPT !.counting = "done", !.counted = Cardinality(Matching(Present))]
  BY DEF CountBeside
<1>2. CallInv(call, known, narrowed) /\ KnownIsSound(known, narrowed)
  BY DEF GridInv
<1>3. kind = "streamed" /\ Present \in 1 .. Present /\ Cardinality(Matching(Present)) \in Nat
  BY <1>1, <1>2, Facts, MatchingIs DEF GridInv, CallInv, Stages
<1>4. CallShape(call') /\ Stages(call')
  BY <1>1, <1>2, <1>3 DEF CallInv, CallShape, Stages
<1>5. TypesSoFar(call') /\ Learned(call', known, narrowed)
  BY <1>1, <1>2, MeetsIs DEF CallInv, CallShape, TypesSoFar, Learned
<1>6. CountsSoFar(call')
  <2>1. IsCounted(Cardinality(Matching(Present)), Present)
    BY <1>3 DEF IsCounted
  <2>2. /\ call'.pc = call.pc /\ call'.table = call.table /\ call'.band = call.band
        /\ call'.outcome = call.outcome /\ call'.counted = Cardinality(Matching(Present))
    BY <1>1, <1>2 DEF CallInv, CallShape
  <2> QED BY <1>2, <1>3, <2>1, <2>2, Facts DEF CallInv, CountsSoFar
<1> QED BY <1>1, <1>2, <1>4, <1>5, <1>6, ScanStep DEF CallInv, Table

\* A pass that met a row too wide remembers the types of the whole file, and
\* was not of a second attempt, unless the file or what was known has changed.
LEMMA MeetKeeps ==
  ASSUME GridAssumption, GridInv, Meets, Remember(Present, Widened(Present))
  PROVE  /\ KnownIsSound(known', narrowed')
         /\ ~narrowed' => ~narrowed
         /\ Present = 1 => known'[1] = Whole(1)
         /\ kind = "streamed"
         /\ Present = 1 /\ ~narrowed' /\ call.attempt = 2 => call.pc \in {"plan", "done"}
<1>1. Present \in 1 .. Present /\ Whole(Present) \in Nat /\ (Present = 1 => Whole(Present) <= Whole(1))
  BY Facts
<1>2. Remember(Present, Whole(Present))
  BY DEF Widened
<1>3. /\ KnownIsSound(known', narrowed') /\ (~narrowed' => ~narrowed)
      /\ Present = 1 => known'[1] = Whole(1)
  BY <1>1, <1>2, RememberKeeps
<1>4. kind = "streamed" /\ call.types < Whole(Present)
  BY MeetsIs
<1>5. Learned(call, known, narrowed) /\ call.types \in Nat
  BY DEF GridInv, CallInv, CallShape
<1> QED BY <1>1, <1>3, <1>4, <1>5 DEF Learned

LEMMA CountMeetsInv == ASSUME GridAssumption, GridInv, CountMeets PROVE GridInv'
<1>1. /\ call.counting = "running" /\ Meets /\ Remember(Present, Widened(Present))
      /\ call' = [call EXCEPT !.counting = "failed", !.widened = TRUE]
      /\ UNCHANGED <<kind, ask, file, other>>
  BY DEF CountMeets
<1>2. CallInv(call, known, narrowed) /\ Whole(1) \in Nat
  BY Facts DEF GridInv
<1>3. call.pc # "plan" /\ kind = "streamed"
  BY <1>1, <1>2, MeetKeeps DEF CallInv, Stages
<1>4. CallShape(call') /\ Stages(call')
  BY <1>1, <1>2, <1>3 DEF CallInv, CallShape, Stages
<1>5. TypesSoFar(call')
  BY <1>1, <1>2 DEF CallInv, CallShape, TypesSoFar
<1>6. Learned(call', known', narrowed')
  BY <1>1, <1>2, <1>3, MeetKeeps DEF CallInv, CallShape, Learned
<1>7. CountsSoFar(call')
  BY <1>1, <1>2 DEF CallInv, CallShape, CountsSoFar
<1> QED BY <1>1, <1>4, <1>5, <1>6, <1>7, MeetKeeps, ScanStep DEF CallInv

\* A pass that meets a row too wide, in the scan's first attempt or its second.
LEMMA MeetFails ==
  ASSUME GridAssumption, GridInv, Meets, Remember(Present, Widened(Present)),
         call.pc \notin {"plan", "done"}
  PROVE  FailedInv([[call EXCEPT !.widened = TRUE] EXCEPT !.outcome = "types"], known', narrowed')
<1> DEFINE c == [[call EXCEPT !.widened = TRUE] EXCEPT !.outcome = "types"]
<1>1. CallInv(call, known, narrowed)
  BY DEF GridInv
<1>2. /\ CallShape(c) /\ c.outcome = "types" /\ c.widened /\ c.pc = call.pc /\ c.types = call.types
      /\ c.attempt = call.attempt /\ c.unplanned = call.unplanned /\ c.counting = call.counting
      /\ c.table = call.table /\ c.counted = call.counted
  BY <1>1 DEF CallInv, CallShape
<1> HIDE DEF c
<1>3. FailedInv(c, known', narrowed')
  BY <1>1, <1>2, MeetKeeps, Facts DEF CallInv, Stages, TypesSoFar, Learned, CountsSoFar, FailedInv
<1> QED BY <1>3 DEF c

LEMMA PassMeetsInv == ASSUME GridAssumption, GridInv, PassMeets PROVE GridInv'
<1>1. /\ call.pc \notin {"plan", "done"} /\ Meets /\ Remember(Present, Widened(Present))
      /\ call' = Retry([[call EXCEPT !.widened = TRUE] EXCEPT !.outcome = "types"])
      /\ UNCHANGED <<kind, ask, file, other>>
  BY DEF PassMeets, Passes, Failed
<1>2. CallInv(call', known', narrowed')
  BY <1>1, MeetFails, RetryKeeps, Facts
<1> QED BY <1>1, <1>2, MeetKeeps, ScanStep

\* A scan that fails for another reason than a row.
LEMMA FailKeeps ==
  ASSUME GridAssumption, GridInv, NEW why \in {"failed", "unplanned"}, call.pc # "done",
         call' = Failed(call, why), UNCHANGED Table
  PROVE  GridInv'
<1> DEFINE c == [call EXCEPT !.outcome = why]
<1>1. call' = Retry(c) /\ UNCHANGED Table
  BY DEF Failed
<1>2. CallInv(call, known, narrowed) /\ KnownIsSound(known, narrowed)
  BY DEF GridInv
<1>3. /\ CallShape(c) /\ c.outcome = why /\ c.widened = call.widened /\ c.pc = call.pc
      /\ c.types = call.types /\ c.attempt = call.attempt /\ c.unplanned = call.unplanned
      /\ c.counting = call.counting /\ c.table = call.table /\ c.counted = call.counted
  BY <1>2 DEF CallInv, CallShape
<1> HIDE DEF c
<1>4. FailedInv(c, known, narrowed)
  BY <1>2, <1>3 DEF CallInv, Stages, TypesSoFar, Learned, CountsSoFar, FailedInv
<1>5. CallInv(call', known, narrowed)
  BY <1>1, <1>4, RetryKeeps, Facts
<1> QED BY <1>1, <1>2, <1>5, ScanStep DEF Table

LEMMA FailInv == ASSUME GridAssumption, GridInv, Fail PROVE GridInv'
BY FailKeeps DEF Fail

LEMMA CheckPassesInv == ASSUME GridAssumption, GridInv, CheckPasses PROVE GridInv'
BY FailKeeps DEF CheckPasses

LEMMA RowsMeetInv == ASSUME GridAssumption, GridInv, RowsMeet PROVE GridInv'
<1>1. /\ call.pc = "rows" /\ Meets /\ Remember(Present, Widened(Present))
      /\ UNCHANGED <<kind, ask, file, other>>
      /\ \/ call' = Retry([[call EXCEPT !.widened = TRUE] EXCEPT !.outcome = "types"])
         \/ call' = [call EXCEPT !.widened = TRUE]
  BY DEF RowsMeet, Failed
<1>2. CASE call' = Retry([[call EXCEPT !.widened = TRUE] EXCEPT !.outcome = "types"])
  <2>1. CallInv(call', known', narrowed')
    BY <1>1, <1>2, MeetFails, RetryKeeps, Facts
  <2> QED BY <1>1, <2>1, MeetKeeps, ScanStep
<1>3. CASE call' = [call EXCEPT !.widened = TRUE]
  <2>1. CallInv(call, known, narrowed) /\ kind = "streamed"
    BY <1>1, MeetKeeps DEF GridInv
  <2>2. CallShape(call') /\ Stages(call') /\ TypesSoFar(call')
    BY <1>1, <1>3, <2>1 DEF CallInv, CallShape, Stages, TypesSoFar
  <2>3. Learned(call', known', narrowed') /\ CountsSoFar(call')
    BY <1>1, <1>3, <2>1, MeetKeeps, Facts DEF CallInv, CallShape, Learned, CountsSoFar
  <2> QED BY <1>1, <2>2, <2>3, MeetKeeps, ScanStep DEF CallInv
<1> QED BY <1>1, <1>2, <1>3

\* A window that has been read: with types that have been over the whole file if
\* it is sorted, and with the count of its version if one pass gave both.
LEMMA GotKeeps ==
  ASSUME GridAssumption, GridInv, NEW v, NEW rows, NEW counted \in Nat \cup {Unknown},
         Got(v, rows, counted), UNCHANGED Table,
         call.pc \in {"sample", "band", "order", "probe", "rows"},
         kind = "streamed" /\ Present = 1 /\ ask.sorted => call.types = Whole(1),
         counted # Unknown => \E u \in 1 .. Present : IsCounted(counted, u),
         ask.sorted /\ kind = "csv" => counted # Unknown /\ IsCounted(counted, v)
  PROVE  GridInv'
<1> DEFINE n == IF counted = Unknown THEN call.counted ELSE counted
           w == [version |-> v, rows |-> rows]
<1>1. call' = [call EXCEPT !.pc = "total", !.window = w, !.counted = n] /\ UNCHANGED Table
  BY DEF Got
<1>2. CallInv(call, known, narrowed) /\ KnownIsSound(known, narrowed)
  BY DEF GridInv
<1>3. /\ n \in Nat \cup {Unknown}
      /\ n # Unknown => \E u \in 1 .. Present : IsCounted(n, u)
      /\ ask.sorted /\ kind = "csv" => IsCounted(n, v)
  BY <1>2 DEF CallInv, CallShape, CountsSoFar
<1> HIDE DEF n, w
<1>4. /\ CallShape(call') /\ call'.pc = "total" /\ call'.window = w /\ call'.counted = n
      /\ call'.types = call.types /\ call'.attempt = call.attempt /\ call'.widened = call.widened
      /\ call'.counting = call.counting /\ call'.unplanned = call.unplanned
      /\ call'.table = call.table
  BY <1>1, <1>2, <1>3 DEF CallInv, CallShape
<1>5. w.version = v
  BY DEF w
<1>6. Stages(call')
  BY <1>2, <1>4, ReadIs DEF CallInv, Stages
<1>7. TypesSoFar(call') /\ Learned(call', known, narrowed)
  BY <1>2, <1>4 DEF CallInv, TypesSoFar, Learned
<1>8. CountsSoFar(call')
  BY <1>2, <1>3, <1>4, <1>5 DEF CallInv, CountsSoFar
<1> QED BY <1>1, <1>2, <1>4, <1>6, <1>7, <1>8, ScanStep DEF CallInv, Table

LEMMA ReadRowsInv == ASSUME GridAssumption, GridInv, ReadRows PROVE GridInv'
<1>1. ~ask.sorted /\ call.pc = "rows"
  BY DEF ReadRows, GridInv, CallInv, Stages
<1>2. Got(Now, Window(InOrder(Now), ask.offset, ask.limit), Unknown) /\ UNCHANGED Table
  BY DEF ReadRows
<1> QED BY <1>1, <1>2, GotKeeps

LEMMA ReadOrderInv == ASSUME GridAssumption, GridInv, ReadOrder PROVE GridInv'
<1>1. call.pc = "order" /\ ~Meets /\ UNCHANGED Table
  BY DEF ReadOrder
<1>2. PICK rows, counted :
        /\ Got(Now, rows, counted)
        /\ \/ counted = Cardinality(Matching(Now))
           \/ Read # "InFileOrder" /\ counted = Unknown
  <2> DEFINE P == IF Read = "InFileOrder" THEN PlacesAsRead(Now) ELSE PlacesOnOne(Now)
             C == {Cardinality(Matching(Now))} \cup
                  (IF Read # "InFileOrder" /\ Cardinality({Key(Now, i) : i \in Matching(Now)}) <= 1
                   THEN {Unknown} ELSE {})
             W(places) == Window(SortedBy(Now, places, Matching(Now)), ask.offset, ask.limit)
  <2>1. \E places \in P, counted \in C : Got(Now, W(places), counted)
    BY DEF ReadOrder
  <2>2. \A counted \in C : \/ counted = Cardinality(Matching(Now))
                           \/ Read # "InFileOrder" /\ counted = Unknown
    OBVIOUS
  <2> HIDE DEF P, C, W
  <2> QED BY <2>1, <2>2, Zenon
<1>3. /\ Cardinality(Matching(Now)) \in Nat
      /\ Now \in 1 .. Present /\ IsCounted(Cardinality(Matching(Now)), Now)
  BY <1>1, NowIs
<1>4. counted \in Nat \cup {Unknown} /\ (counted # Unknown => IsCounted(counted, Now))
  BY <1>2, <1>3
<1>5. kind = "csv" => counted = Cardinality(Matching(Now)) /\ counted # Unknown
  BY <1>2, <1>3, ReadIs, Facts
<1>6. kind = "streamed" /\ Present = 1 => call.types = Whole(1)
  BY <1>1, MeetsIs
<1> QED BY <1>1, <1>2, <1>3, <1>4, <1>5, <1>6, GotKeeps

\* A stage of a sorted window that follows another of it.
LEMMA StageKeeps ==
  ASSUME GridAssumption, GridInv, UNCHANGED Table, ask.sorted,
         call.pc \in {"sample", "band", "probe"}, NEW pc \in {"band", "order", "probe"}, NEW band,
         call' = [call EXCEPT !.pc = pc, !.band = band],
         pc = "probe" => kind \notin {"streamed", "csv"},
         pc = "band" => IsCounted(band.matched, band.version),
         pc = "band" /\ kind = "streamed" /\ Present = 1 => call.types = Whole(1)
  PROVE  GridInv'
<1>1. CallInv(call, known, narrowed) /\ KnownIsSound(known, narrowed)
  BY DEF GridInv
<1>2. /\ CallShape(call') /\ call'.pc = pc /\ call'.band = band /\ call'.counted = call.counted
      /\ call'.types = call.types /\ call'.attempt = call.attempt /\ call'.widened = call.widened
      /\ call'.counting = call.counting /\ call'.unplanned = call.unplanned
      /\ call'.table = call.table
  BY <1>1 DEF CallInv, CallShape
<1>3. Stages(call')
  BY <1>1, <1>2, ReadIs DEF CallInv, Stages
<1>4. TypesSoFar(call') /\ Learned(call', known, narrowed)
  BY <1>1, <1>2 DEF CallInv, TypesSoFar, Learned
<1>5. CountsSoFar(call')
  BY <1>1, <1>2 DEF CallInv, CountsSoFar
<1> QED BY <1>1, <1>2, <1>3, <1>4, <1>5, ScanStep DEF CallInv, Table

LEMMA ProbeInv == ASSUME GridAssumption, GridInv, Probe PROVE GridInv'
<1>1. call.pc = "probe" /\ UNCHANGED Table
  BY DEF Probe
<1>2. ask.sorted /\ kind \notin {"streamed", "csv"}
  BY <1>1 DEF GridInv, CallInv, Stages
<1>3. ASSUME NEW rows, Got(Now, rows, Unknown) PROVE GridInv'
  BY <1>1, <1>2, <1>3, GotKeeps
<1>4. ASSUME call' = [call EXCEPT !.pc = "order"] PROVE GridInv'
  <2>1. call' = [call EXCEPT !.pc = "order", !.band = call.band]
    BY <1>4 DEF GridInv, CallInv, CallShape
  <2> QED BY <1>1, <1>2, <2>1, StageKeeps
<1> QED BY <1>3, <1>4 DEF Probe

LEMMA SampleInv == ASSUME GridAssumption, GridInv, Sample PROVE GridInv'
<1> DEFINE v == Now
           matched == Cardinality(Matching(v))
<1>1. call.pc = "sample" /\ ~Meets /\ UNCHANGED Table /\ ask.sorted
  BY DEF Sample, GridInv, CallInv, Stages
<1>2. matched \in Nat /\ v \in 1 .. Present /\ IsCounted(matched, v)
  BY <1>1, NowIs
<1>3. kind = "streamed" /\ Present = 1 => call.types = Whole(1)
  BY <1>1, MeetsIs
<1>4. ASSUME Got(v, <<>>, matched) PROVE GridInv'
  <2> HIDE DEF v, matched
  <2>1. matched # Unknown
    BY <1>2, Facts
  <2> QED BY <1>1, <1>2, <1>3, <1>4, <2>1, GotKeeps
<1>5. ASSUME NEW kept, NEW places, NEW lower, NEW upper,
             call' = [call EXCEPT
                        !.pc = "band",
                        !.band = [version |-> v, matched |-> matched, kept |-> kept,
                                  places |-> places, lower |-> lower, upper |-> upper]]
      PROVE  GridInv'
  <2> DEFINE band == [version |-> v, matched |-> matched, kept |-> kept,
                      places |-> places, lower |-> lower, upper |-> upper]
  <2>1. call' = [call EXCEPT !.pc = "band", !.band = band]
    BY <1>5
  <2>2. band.matched = matched /\ band.version = v
    OBVIOUS
  <2> HIDE DEF band, v, matched
  <2> QED BY <1>1, <1>2, <1>3, <2>1, <2>2, StageKeeps
<1>6. CASE ask.offset >= matched
  BY <1>4, <1>6 DEF Sample
<1>7. CASE ~(ask.offset >= matched)
  <2> DEFINE K == CASE kind = "streamed" -> BOOLEAN
                    [] kind = "csv" -> BOOLEAN
                    [] OTHER -> {FALSE}
             Samples == kSubset(Smaller(SampleRows, matched), Matching(v))
             Sorted(places, sample) == SortedBy(v, places, sample)
             L(places, sample) ==
               IF Lower(matched, Len(Sorted(places, sample))) >= 0
               THEN Bound(v, places, Sorted(places, sample)[Lower(matched, Len(Sorted(places, sample))) + 1])
               ELSE <<>>
             U(places, sample) ==
               IF Upper(matched, Len(Sorted(places, sample))) < Len(Sorted(places, sample))
               THEN Bound(v, places, Sorted(places, sample)[Upper(matched, Len(Sorted(places, sample))) + 1])
               ELSE <<>>
             P(kept, places) == IF kept THEN places ELSE <<>>
  <2>1. \E places \in Numberings(v), sample \in Samples, kept \in K :
          call' = [call EXCEPT
                     !.pc = "band",
                     !.band = [version |-> v, matched |-> matched, kept |-> kept,
                               places |-> P(kept, places), lower |-> L(places, sample),
                               upper |-> U(places, sample)]]
    BY <1>7 DEF Sample
  <2> HIDE DEF K, Samples, L, U, P, v, matched
  <2> QED BY <2>1, <1>5, Zenon
<1> QED BY <1>6, <1>7

LEMMA BandInv == ASSUME GridAssumption, GridInv, Band PROVE GridInv'
<1> DEFINE v == BandOf
<1>1. call.pc = "band" /\ (call.band.kept \/ ~Meets) /\ UNCHANGED Table /\ ask.sorted
  BY DEF Band, GridInv, CallInv, Stages
<1>2. IsCounted(call.band.matched, call.band.version)
  BY <1>1 DEF GridInv, CallInv, CountsSoFar
<1>3. v \in 1 .. Present /\ Cardinality(Matching(v)) \in Nat /\ call.band.matched \in Nat
  BY <1>1, <1>2, NowIs, MatchingIs DEF GridInv, BandOf, IsCounted
<1>4. kind = "streamed" /\ Present = 1 => call.types = Whole(1)
  BY <1>1 DEF GridInv, CallInv, TypesSoFar
<1>5. ASSUME NEW rows, SameCount(Cardinality(Matching(v))), Got(v, rows, call.band.matched)
      PROVE  GridInv'
  <2>1. IsCounted(call.band.matched, v) /\ call.band.matched # Unknown
    BY <1>3, <1>5, Facts DEF SameCount, IsCounted
  <2> HIDE DEF v
  <2> QED BY <1>1, <1>3, <1>4, <1>5, <2>1, GotKeeps
<1>6. ASSUME call' = [call EXCEPT !.pc = OnePass, !.band = NoBand] PROVE GridInv'
  <2> OnePass \in {"probe", "order"} /\ (OnePass = "probe" => kind \notin {"streamed", "csv"})
    BY ReadIs
  <2> QED BY <1>1, <1>6, StageKeeps
<1> QED BY <1>5, <1>6 DEF Band

LEMMA TotalInv == ASSUME GridAssumption, GridInv, Total PROVE GridInv'
<1>1. call.pc = "total" /\ UNCHANGED Table
  BY DEF Total
<1>2. CallInv(call, known, narrowed) /\ KnownIsSound(known, narrowed)
  BY DEF GridInv
<1>3. CASE call.counting = "failed" /\ call' = Failed(call, "types")
  <2> DEFINE c == [call EXCEPT !.outcome = "types"]
  <2>1. call' = Retry(c)
    BY <1>3 DEF Failed
  <2>2. /\ CallShape(c) /\ c.outcome = "types" /\ c.widened = call.widened /\ c.pc = call.pc
        /\ c.types = call.types /\ c.attempt = call.attempt /\ c.unplanned = call.unplanned
        /\ c.counting = call.counting /\ c.table = call.table /\ c.counted = call.counted
    BY <1>2 DEF CallInv, CallShape
  <2> HIDE DEF c
  <2>3. Present = 1 \/ Present > 1
    BY Facts
  <2>4. FailedInv(c, known, narrowed)
    BY <1>1, <1>2, <1>3, <2>2, <2>3
       DEF CallInv, Stages, TypesSoFar, Learned, CountsSoFar, FailedInv
  <2>5. CallInv(call', known, narrowed)
    BY <2>1, <2>4, RetryKeeps, Facts
  <2> QED BY <1>1, <1>2, <2>5, ScanStep DEF Table
<1>4. CASE /\ call.counting \notin {"failed", "running"} /\ call.counted = Unknown
           /\ call' = [call EXCEPT !.pc = "recount"]
  <2>1. ~(ask.sorted /\ kind = "csv")
    <3> SUFFICES ASSUME ask.sorted, kind = "csv" PROVE FALSE
      OBVIOUS
    <3>1. IsCounted(call.counted, call.window.version)
      BY <1>1, <1>2 DEF CallInv, CountsSoFar
    <3>2. call.counted \in Nat
      BY <3>1, MatchingIs DEF IsCounted, GridInv
    <3> QED BY <1>4, <3>2, Facts
  <2>2. /\ CallShape(call') /\ call'.pc = "recount" /\ call'.counted = call.counted
        /\ call'.types = call.types /\ call'.attempt = call.attempt /\ call'.widened = call.widened
        /\ call'.counting = call.counting /\ call'.unplanned = call.unplanned
        /\ call'.table = call.table
    BY <1>2, <1>4 DEF CallInv, CallShape
  <2>3. Stages(call') /\ TypesSoFar(call') /\ Learned(call', known, narrowed)
    BY <1>1, <1>2, <2>2 DEF CallInv, Stages, TypesSoFar, Learned
  <2>4. CountsSoFar(call')
    BY <1>1, <1>2, <2>1, <2>2 DEF CallInv, CountsSoFar
  <2> QED BY <1>1, <1>2, <2>2, <2>3, <2>4, ScanStep DEF CallInv, Table
<1>5. CASE /\ call.counting \notin {"failed", "running"} /\ call.counted # Unknown
           /\ call' = [call EXCEPT !.pc = "done", !.outcome = "ok"]
  <2>1. /\ CallShape(call') /\ call'.pc = "done" /\ call'.outcome = "ok"
        /\ call'.counted = call.counted /\ call'.window = call.window
        /\ call'.types = call.types /\ call'.attempt = call.attempt /\ call'.widened = call.widened
        /\ call'.counting = call.counting /\ call'.unplanned = call.unplanned
    BY <1>2, <1>5 DEF CallInv, CallShape
  <2>2. call.counting \in {"no", "done"}
    BY <1>2, <1>5 DEF CallInv, CallShape
  <2>3. Stages(call') /\ Learned(call', known, narrowed) /\ CountsSoFar(call')
    BY <1>1, <1>2, <1>5, <2>1 DEF CallInv, Stages, Learned, CountsSoFar
  <2>4. TypesSoFar(call')
    BY <1>1, <1>2, <2>1, <2>2, ReadIs DEF CallInv, Stages, TypesSoFar
  <2> QED BY <1>1, <1>2, <2>1, <2>3, <2>4, ScanStep DEF CallInv, Table
<1> QED BY <1>3, <1>4, <1>5 DEF Total

LEMMA RecountInv == ASSUME GridAssumption, GridInv, Recount PROVE GridInv'
<1> DEFINE n == Cardinality(Matching(Now))
<1>1. call.pc = "recount" /\ ~Meets /\ UNCHANGED Table
      /\ call' = [call EXCEPT !.pc = "total", !.counted = n]
  BY DEF Recount
<1>2. CallInv(call, known, narrowed) /\ KnownIsSound(known, narrowed)
  BY DEF GridInv
<1>3. n \in Nat /\ Now \in 1 .. Present /\ IsCounted(n, Now)
  BY <1>1, NowIs
<1> HIDE DEF n
<1>4. /\ CallShape(call') /\ call'.pc = "total" /\ call'.counted = n
      /\ call'.types = call.types /\ call'.attempt = call.attempt /\ call'.widened = call.widened
      /\ call'.counting = call.counting /\ call'.unplanned = call.unplanned
      /\ call'.table = call.table
  BY <1>1, <1>2, <1>3 DEF CallInv, CallShape
<1>5. Stages(call') /\ TypesSoFar(call') /\ Learned(call', known, narrowed)
  BY <1>1, <1>2, <1>4 DEF CallInv, Stages, TypesSoFar, Learned
<1>6. CountsSoFar(call')
  BY <1>1, <1>2, <1>3, <1>4 DEF CallInv, CountsSoFar
<1> QED BY <1>1, <1>2, <1>4, <1>5, <1>6, ScanStep DEF CallInv, Table

\* A step of another request changes what it has read and what is remembered.
LEMMA OtherStep ==
  ASSUME GridInv, UNCHANGED <<kind, ask, file, call>>, OtherIsSound',
         KnownIsSound(known', narrowed'), ~narrowed' => ~narrowed,
         ~narrowed' /\ known[1] = Whole(1) => known'[1] = Whole(1)
  PROVE  GridInv'
<1>1. kind' = kind /\ ask' = ask /\ file' = file /\ call' = call
  OBVIOUS
<1>2. Present' = Present /\ Whole(1)' = Whole(1)
  BY <1>1 DEF Present, Whole, Inferred
<1>3. ASSUME NEW m, NEW v PROVE IsCounted(m, v)' <=> IsCounted(m, v)
  BY <1>1, <1>2 DEF IsCounted, Matching
<1>4. kind' \in Kinds /\ FileIsSound' /\ KnownIsSound(known, narrowed)'
  BY <1>1, <1>2 DEF GridInv, FileIsSound, KnownIsSound
<1>5. CallShape(call)' /\ Stages(call)' /\ TypesSoFar(call)'
  BY <1>1, <1>2 DEF GridInv, CallInv, CallShape, Stages, TypesSoFar, CountedBeside, Read
<1>6. Learned(call, known, narrowed)'
  BY <1>1, <1>2 DEF GridInv, CallInv, Learned
<1>7. CountsSoFar(call)'
  BY <1>1, <1>2, <1>3 DEF GridInv, CallInv, CountsSoFar
<1> QED BY <1>4, <1>5, <1>6, <1>7 DEF GridInv, CallInv

LEMMA OtherReadsInv ==
  ASSUME GridAssumption, GridInv, NEW n \in 1 .. MaxRows, OtherReads(n)
  PROVE  GridInv'
<1> DEFINE m == Max({n, InferRows})
<1>1. /\ UNCHANGED <<kind, ask, file, call>> /\ Remember(Present, Schema(Present))
      /\ \/ other' = [pc |-> "widening", version |-> Present, types |-> Inferred(Present, m)]
         \/ other' = [other EXCEPT !.pc = "done"]
  BY DEF OtherReads
<1>2. Present \in 1 .. Present /\ Present \in Nat /\ InferRows \in Nat
  BY Facts
<1>3. m \in Int
  <2>1. n \in Int /\ \E x \in {n, InferRows} : \A y \in {n, InferRows} : x >= y
    BY <1>2
  <2>2. Max({n, InferRows}) \in {n, InferRows}
    BY <2>1 DEF Max
  <2> QED BY <1>2, <2>1, <2>2
<1> HIDE DEF m
<1>4. /\ Inferred(Present, m) \in Nat
      /\ Present = 1 => Inferred(Present, m) <= Whole(1)
  BY <1>2, <1>3, InferredIs DEF GridInv
<1>5. /\ Schema(Present) \in Nat
      /\ Present = 1 => Schema(Present) <= Whole(1)
  BY <1>2, SchemaIs
<1>6. /\ KnownIsSound(known', narrowed') /\ (~narrowed' => ~narrowed)
      /\ ~narrowed' /\ known[1] = Whole(1) => known'[1] = Whole(1)
  BY <1>1, <1>2, <1>5, RememberKeeps
<1>7. OtherIsSound'
  <2>1. Present' = Present /\ Whole(1)' = Whole(1)
    BY <1>1 DEF Present, Whole, Inferred
  <2>2. OtherIsSound
    BY DEF GridInv
  <2>3. CASE other' = [pc |-> "widening", version |-> Present, types |-> Inferred(Present, m)]
    BY <1>2, <1>4, <2>1, <2>3 DEF OtherIsSound
  <2>4. CASE other' = [other EXCEPT !.pc = "done"]
    BY <2>1, <2>2, <2>4 DEF OtherIsSound
  <2> QED BY <1>1, <2>3, <2>4
<1> QED BY <1>1, <1>6, <1>7, OtherStep

LEMMA OtherWidensInv == ASSUME GridAssumption, GridInv, OtherWidens PROVE GridInv'
<1>1. /\ other.pc = "widening" /\ Remember(other.version, other.types)
      /\ other' = [other EXCEPT !.pc = "done"] /\ UNCHANGED <<kind, ask, file, call>>
  BY DEF OtherWidens
<1>2. /\ other.version \in 1 .. Present /\ other.types \in Nat
      /\ other.version = 1 => other.types <= Whole(1)
  BY <1>1 DEF GridInv, OtherIsSound
<1>3. /\ KnownIsSound(known', narrowed') /\ (~narrowed' => ~narrowed)
      /\ ~narrowed' /\ known[1] = Whole(1) => known'[1] = Whole(1)
  BY <1>1, <1>2, RememberKeeps
<1>4. Present' = Present /\ Whole(1)' = Whole(1)
  BY <1>1 DEF Present, Whole, Inferred
<1>5. OtherIsSound'
  BY <1>1, <1>4 DEF GridInv, OtherIsSound
<1> QED BY <1>1, <1>3, <1>5, OtherStep

LEMMA ForgetInv == ASSUME GridAssumption, GridInv, Forget PROVE GridInv'
<1>1. /\ known' = [v \in Versions |-> Unknown] /\ narrowed' = TRUE
      /\ UNCHANGED <<kind, ask, file, other, call>>
  BY DEF Forget
<1>2. KnownIsSound(known', narrowed')
  BY <1>1, Facts DEF KnownIsSound, Unknown
<1>3. OtherIsSound'
  BY <1>1 DEF GridInv, OtherIsSound, Present, Whole, Inferred
<1> QED BY <1>1, <1>2, <1>3, OtherStep

\* A file that replaces another holds some of its rows.
LEMMA ReplacementsAre ==
  ASSUME NEW rows \in Seq(Rows), NEW next \in Replacements(rows)
  PROVE  next \in Seq(Rows)
<1>1. CASE next = Reverse(rows)
  <2>1. \A i \in 1 .. Len(rows) : (Len(rows) - i) + 1 \in 1 .. Len(rows)
    OBVIOUS
  <2>2. \A i \in 1 .. Len(rows) : rows[(Len(rows) - i) + 1] \in Rows
    BY <2>1
  <2>3. next = [i \in 1 .. Len(rows) |-> rows[(Len(rows) - i) + 1]]
    BY <1>1 DEF Reverse
  <2> QED BY <2>2, <2>3, Len(rows) \in Nat
<1>2. ASSUME NEW i \in 1 .. Len(rows), next = RemoveAt(rows, i) PROVE next \in Seq(Rows)
  <2>1. SubSeq(rows, 1, i - 1) \in Seq(Rows) /\ SubSeq(rows, i + 1, Len(rows)) \in Seq(Rows)
    OBVIOUS
  <2> QED BY <1>2, <2>1 DEF RemoveAt
<1> QED BY <1>1, <1>2 DEF Replacements

\* Once the file has been replaced, nothing is said of the types of its first
\* content; the counts of all it has had stay theirs.
LEMMA ChangeInv == ASSUME GridAssumption, GridInv, Change PROVE GridInv'
<1>1. PICK rows \in Replacements(file[Present]) : file' = Append(file, rows)
  BY DEF Change
<1>2. /\ Present <= MaxChanges /\ UNCHANGED <<kind, ask, known, narrowed, other, call>>
  BY DEF Change
<1>3. file \in Seq(Seq(Rows)) /\ Present = Len(file) /\ Present \in Nat /\ 1 \in 1 .. Present
  BY Facts DEF GridInv, FileIsSound, Present
<1>4. rows \in Seq(Rows)
  BY <1>1, <1>3, Facts, ReplacementsAre
<1>5. /\ file' \in Seq(Seq(Rows)) /\ Len(file') = Present + 1
      /\ \A v \in 1 .. Present : file'[v] = file[v]
  BY <1>1, <1>3, <1>4
<1>6. Present' = Present + 1 /\ Present' \in Versions
  BY <1>2, <1>3, <1>5 DEF Present, Versions, GridAssumption
<1>7. Whole(1)' = Whole(1)
  BY <1>3, <1>5 DEF Whole, Inferred
<1>8. ASSUME NEW m, NEW v, IsCounted(m, v) PROVE IsCounted(m, v)'
  <2>1. v \in 1 .. Present /\ m = Cardinality(Matching(v))
    BY <1>8 DEF IsCounted
  <2>2. file'[v] = file[v]
    BY <2>1, <1>5
  <2>3. Matching(v)' = Matching(v)
    BY <2>2 DEF Matching
  <2> QED BY <1>3, <1>6, <2>1, <2>3 DEF IsCounted
<1>9. FileIsSound' /\ kind' \in Kinds
  BY <1>2, <1>5, <1>6 DEF FileIsSound, GridInv
<1>10. OtherIsSound' /\ KnownIsSound(known, narrowed)'
  BY <1>2, <1>3, <1>6, <1>7 DEF GridInv, OtherIsSound, KnownIsSound
<1>11. CallShape(call)' /\ Stages(call)'
  BY <1>2 DEF GridInv, CallInv, CallShape, Stages, CountedBeside, Read
<1>12. TypesSoFar(call)' /\ Learned(call, known, narrowed)'
  BY <1>3, <1>6 DEF TypesSoFar, Learned
<1>13. CountsSoFar(call)'
  <2>1. CountsSoFar(call) /\ call' = call /\ kind' = kind /\ ask' = ask
    BY <1>2 DEF GridInv, CallInv
  <2>2. \A v : v \in 1 .. Present => v \in (1 .. Present)'
    BY <1>3, <1>6
  <2> QED BY <1>8, <2>1, <2>2 DEF CountsSoFar
<1> QED BY <1>9, <1>10, <1>11, <1>12, <1>13 DEF GridInv, CallInv

-----------------------------------------------------------------------------
(* The invariant and what follows from it.                                 *)

LEMMA InitGridInv == ASSUME GridAssumption, Init PROVE GridInv
<1>1. PICK t \in Tables : kind = t.kind /\ file = <<t.rows>>
  BY DEF Init
<1>2. kind \in Kinds /\ t.rows \in Seq(Rows)
  BY <1>1 DEF GridAssumption
<1>3. FileIsSound /\ Present = 1
  BY <1>1, <1>2 DEF FileIsSound, Present, Versions, GridAssumption
<1>4. Whole(1) \in Nat
  BY <1>3, InferredIs
<1>5. /\ known = [v \in Versions |-> Unknown] /\ narrowed = FALSE
      /\ other = [pc |-> "idle", version |-> 0, types |-> 0] /\ call = Attempt(1)
  BY DEF Init
<1>6. OtherIsSound /\ KnownIsSound(known, narrowed)
  <2>1. 1 \in Versions
    BY <1>3 DEF FileIsSound
  <2>2. KnownIsSound(known, narrowed)
    <3>1. known \in [Versions -> Nat \cup {Unknown}] /\ known[1] = Unknown
      BY <1>5, <2>1
    <3>2. Unknown <= Whole(1)
      BY <1>4 DEF Unknown
    <3> QED BY <1>5, <3>1, <3>2 DEF KnownIsSound
  <2>3. OtherIsSound
    BY <1>3, <1>4, <1>5 DEF OtherIsSound
  <2> QED BY <2>2, <2>3
<1>7. CallShape(call) /\ Stages(call)
  BY <1>5 DEF CallShape, Stages, Attempt, Unknown
<1>8. TypesSoFar(call) /\ Learned(call, known, narrowed) /\ CountsSoFar(call)
  BY <1>4, <1>5 DEF TypesSoFar, Learned, CountsSoFar, Attempt, Unknown
<1> QED BY <1>2, <1>3, <1>6, <1>7, <1>8 DEF GridInv, CallInv

LEMMA NextGridInv == ASSUME GridAssumption, GridInv, [Next]_vars PROVE GridInv'
<1>1. CASE Scan
  BY <1>1, PlanInv, CountInv, CountBesideInv, CountMeetsInv, PassMeetsInv, CheckPassesInv,
     ReadRowsInv, RowsMeetInv, SampleInv, BandInv, ReadOrderInv, ProbeInv, TotalInv,
     RecountInv, FailInv DEF Scan
<1>2. CASE Others
  BY <1>2, OtherReadsInv, OtherWidensInv, ForgetInv, ChangeInv DEF Others
<1>3. CASE UNCHANGED vars
  <2>1. UNCHANGED <<kind, ask, file, other>> /\ known' = known /\ narrowed' = narrowed
        /\ call' = call
    BY <1>3 DEF vars
  <2> QED BY <2>1, ScanStep DEF GridInv
<1> QED BY <1>1, <1>2, <1>3 DEF Next

THEOREM GridIsSound == Spec => []GridInv
<1>1. Init => GridInv
  BY GridAssumption, InitGridInv
<1>2. GridInv /\ [Next]_vars => GridInv'
  BY GridAssumption, NextGridInv
<1> QED BY <1>1, <1>2, PTL DEF Spec

\* An answer over a streamed file that did not change was read with types that
\* hold every value of the file, and a scan fails over a value only if the file
\* changed, or what had been learned of it was lost, while it ran
\* (src/src/engine/sql/streamed.rs).
THEOREM TypesHold == Spec => []TypesFit
<1>1. GridInv => TypesFit
  BY DEF GridInv, CallInv, TypesSoFar, Learned, TypesFit, TypesHoldTheFile, FailsForCause, Answered
<1> QED BY <1>1, GridIsSound, PTL

\* The total of an answer is that of a content the file has had, and of the
\* content its window was cut from where one pass gave both
\* (src/src/engine/sql.rs, sql/deep.rs).
THEOREM CountsAreExact == Spec => []CountIsExact
<1>1. GridInv => CountIsExact
  <2> SUFFICES ASSUME GridInv, Answered PROVE CountIsExact
    BY DEF CountIsExact
  <2>1. CountsSoFar(call) /\ call.pc = "done" /\ call.outcome = "ok"
    BY DEF GridInv, CallInv, Answered
  <2> QED BY <2>1, ReadIs DEF CountsSoFar, IsCounted, CountIsExact
<1> QED BY <1>1, GridIsSound, PTL

-----------------------------------------------------------------------------
(* Batches of rows: how many rows they have, and where a window of them is. *)

\* The rows of each first part of some batches.
LEMMA RowsThroughIs ==
  ASSUME NEW batches \in Seq(Nat)
  PROVE  /\ RowsThrough(batches) \in [0 .. Len(batches) -> Nat]
         /\ RowsThrough(batches)[0] = 0
         /\ \A n \in 1 .. Len(batches) : RowsThrough(batches)[n] = RowsThrough(batches)[n - 1] + batches[n]
<1> DEFINE D == 0 .. Len(batches)
           sums(f, m) == f \in [0 .. m -> Nat] /\ \A n \in 0 .. m : f[n] = IF n = 0 THEN 0 ELSE f[n - 1] + batches[n]
           missing == {m \in D : ~\E f : sums(f, m)}
<1>1. \A m \in D : \E f : sums(f, m)
  <2> SUFFICES ASSUME missing # {} PROVE FALSE
    OBVIOUS
  <2>1. missing \in SUBSET Nat
    OBVIOUS
  <2> HIDE DEF missing
  <2>2. PICK m \in missing : \A k \in missing : m <= k
    BY <2>1, LeastNatural
  <2>3. m \in D /\ ~\E f : sums(f, m)
    BY <2>2 DEF missing
  <2>4. CASE m = 0
    <3> DEFINE f == [n \in 0 .. 0 |-> 0]
    <3>1. sums(f, 0)
      OBVIOUS
    <3>2. QED
      BY <2>3, <2>4, <3>1
  <2>5. CASE m # 0
    <3>1. m - 1 \in D /\ m - 1 \notin missing
      BY <2>1, <2>2, <2>3, <2>5
    <3>2. PICK g : sums(g, m - 1)
      BY <3>1 DEF missing
    <3> DEFINE f == [n \in 0 .. m |-> IF n = m THEN g[m - 1] + batches[m] ELSE g[n]]
    <3>3. g[m - 1] \in Nat /\ batches[m] \in Nat
      BY <2>3, <2>5, <3>2
    <3>4. f \in [0 .. m -> Nat]
      BY <2>3, <2>5, <3>2, <3>3
    <3>5. \A n \in 0 .. m : f[n] = IF n = 0 THEN 0 ELSE f[n - 1] + batches[n]
      BY <2>3, <2>5, <3>2, <3>3
    <3>6. QED
      BY <2>3, <3>4, <3>5
  <2>6. QED
    BY <2>4, <2>5
<1>2. PICK g : sums(g, Len(batches))
  <2>1. Len(batches) \in D
    OBVIOUS
  <2> HIDE DEF sums
  <2>2. QED
    BY <1>1, <2>1
<1> DEFINE sum == RowsThrough(batches)
<1>3. sum = CHOOSE f : f = [n \in D |-> IF n = 0 THEN 0 ELSE f[n - 1] + batches[n]]
  BY DEF RowsThrough
<1>4. g = [n \in D |-> IF n = 0 THEN 0 ELSE g[n - 1] + batches[n]]
  BY <1>2
<1>5. sum = [n \in D |-> IF n = 0 THEN 0 ELSE sum[n - 1] + batches[n]]
  <2> HIDE DEF sum
  <2>1. QED
    BY <1>3, <1>4
<1>6. \A n \in D : sum[n] = IF n = 0 THEN 0 ELSE sum[n - 1] + batches[n]
  <2> HIDE DEF sum
  <2>1. QED
    BY <1>5
<1>7. DOMAIN sum = D /\ sum = [n \in D |-> sum[n]]
  <2> HIDE DEF sum
  <2>1. QED
    BY <1>5
<1> DEFINE strange == {n \in D : sum[n] \notin Nat}
<1> HIDE DEF sum
<1>8. \A n \in D : sum[n] \in Nat
  <2> SUFFICES ASSUME strange # {} PROVE FALSE
    OBVIOUS
  <2>1. strange \in SUBSET Nat
    OBVIOUS
  <2> HIDE DEF strange
  <2>2. PICK m \in strange : \A k \in strange : m <= k
    BY <2>1, LeastNatural
  <2>3. m \in D /\ sum[m] \notin Nat
    BY <2>2 DEF strange
  <2>4. m # 0
    BY <1>6, <2>3
  <2>5. m - 1 \in D /\ m - 1 \notin strange
    BY <2>1, <2>2, <2>3, <2>4
  <2>6. sum[m - 1] \in Nat /\ batches[m] \in Nat
    BY <2>3, <2>4, <2>5 DEF strange
  <2>7. QED
    BY <1>6, <2>3, <2>4, <2>6
<1>9. sum \in [D -> Nat]
  BY <1>7, <1>8
<1>10. QED
  BY <1>6, <1>9 DEF sum

\* Some numbers are at most some number.
LEMMA SeqBounded ==
  ASSUME NEW rows \in Seq(Nat)
  PROVE  \E m \in Nat : \A i \in 1 .. Len(rows) : rows[i] <= m
<1> DEFINE unbounded == {n \in 0 .. Len(rows) : ~\E m \in Nat : \A i \in 1 .. n : rows[i] <= m}
<1>1. unbounded \in SUBSET Nat
  OBVIOUS
<1>2. unbounded = {}
  <2> SUFFICES ASSUME unbounded # {} PROVE FALSE
    OBVIOUS
  <2> HIDE DEF unbounded
  <2>1. PICK n \in unbounded : \A k \in unbounded : n <= k
    BY <1>1, LeastNatural
  <2>2. n \in 0 .. Len(rows) /\ ~\E m \in Nat : \A i \in 1 .. n : rows[i] <= m
    BY <2>1 DEF unbounded
  <2>3. n # 0
    BY <2>2
  <2> DEFINE len == Len(rows)
  <2>4. n - 1 \in 0 .. len /\ n - 1 \notin unbounded /\ n \in 1 .. len /\ n \in Nat
    <3>1. len \in Nat /\ n \in 0 .. len
      BY <2>2
    <3> HIDE DEF len
    <3>2. QED
      BY <2>1, <2>3, <3>1
  <2>5. PICK m \in Nat : \A i \in 1 .. n - 1 : rows[i] <= m
    BY <2>4 DEF unbounded
  <2> DEFINE both == IF rows[n] > m THEN rows[n] ELSE m
  <2>6. rows[n] \in Nat /\ \A i \in 1 .. n : rows[i] \in Nat
    BY <2>4
  <2>7. both \in Nat /\ both >= m /\ both >= rows[n]
    BY <2>6
  <2>8. \A i \in 1 .. n : i = n \/ i \in 1 .. n - 1
    BY <2>4
  <2> HIDE DEF both
  <2>9. \A i \in 1 .. n : rows[i] <= both
    BY <2>5, <2>6, <2>7, <2>8
  <2>10. QED
    BY <2>2, <2>7, <2>9
<1>3. Len(rows) \in 0 .. Len(rows)
  OBVIOUS
<1>4. QED
  BY <1>2, <1>3

LEMMA LeastOfTwo ==
  ASSUME NEW a \in Int, NEW b \in Int
  PROVE  Least({a, b}) = IF a <= b THEN a ELSE b
BY DEF Least

\* The places of a window in the first rows.
Places(offset, end, start) == [i \in 1 .. Greater(0, Least({start, end}) - offset) |-> offset + i]

\* What `read_file` has after the rows of a batch.
Cut(acc, rows, offset, end) ==
  LET from == Greater(offset - acc.start, 0)
      to == Least({end - acc.start, rows})
  IN [start |-> acc.start + rows,
      places |-> IF acc.start >= end \/ acc.start + rows <= offset THEN acc.places
                 ELSE acc.places \o [i \in 1 .. to - from |-> acc.start + from + i]]

\* One sequence after another, and a function that is as long and says the same.
LEMMA ConcatIs ==
  ASSUME NEW s \in Seq(Int), NEW t \in Seq(Int)
  PROVE  /\ s \o t \in Seq(Int) /\ Len(s \o t) = Len(s) + Len(t)
         /\ \A i \in 1 .. Len(s) : (s \o t)[i] = s[i]
         /\ \A i \in 1 .. Len(t) : (s \o t)[Len(s) + i] = t[i]
OBVIOUS

\* A batch adds the places that are its own.
LEMMA CutIs ==
  ASSUME NEW offset \in Nat, NEW end \in Nat, NEW start \in Nat, NEW rows \in Nat
  PROVE  Cut([start |-> start, places |-> Places(offset, end, start)], rows, offset, end) =
           [start |-> start + rows, places |-> Places(offset, end, start + rows)]
<1> DEFINE from == Greater(offset - start, 0)
           to == Least({end - start, rows})
           before == Places(offset, end, start)
           after == Places(offset, end, start + rows)
           more == [i \in 1 .. to - from |-> start + from + i]
           new == IF start >= end \/ start + rows <= offset THEN before ELSE before \o more
<1>1. Cut([start |-> start, places |-> before], rows, offset, end) = [start |-> start + rows, places |-> new]
  BY DEF Cut
<1>2. /\ Least({start, end}) = IF start <= end THEN start ELSE end
      /\ Least({start + rows, end}) = IF start + rows <= end THEN start + rows ELSE end
      /\ to = IF end - start <= rows THEN end - start ELSE rows
  BY LeastOfTwo
<1>3. new = after
  <2> DEFINE b == Greater(0, Least({start, end}) - offset)
             a == Greater(0, Least({start + rows, end}) - offset)
  <2>1. before = [i \in 1 .. b |-> offset + i] /\ after = [i \in 1 .. a |-> offset + i]
    BY DEF Places
  <2>2. a \in Nat /\ b \in Nat /\ to - from \in Int /\ from \in Nat
    BY <1>2 DEF Greater
  <2>3. CASE start >= end \/ start + rows <= offset
    <3>1. a = b
      BY <1>2, <2>3 DEF Greater
    <3> HIDE DEF a, b, before, after, more
    <3>2. QED
      BY <2>1, <2>3, <3>1
  <2>4. CASE start < end /\ start + rows > offset
    <3> DEFINE m == Greater(0, to - from)
    <3>1. m \in Nat /\ a = b + m /\ (m > 0 => start + from = offset + b)
      BY <1>2, <2>4 DEF Greater
    <3>2. 1 .. to - from = 1 .. m
      BY <2>2 DEF Greater
    <3>3. more = [i \in 1 .. m |-> start + from + i]
      BY <3>2
    <3> HIDE DEF a, b, m, from, to, before, after, more
    <3>4. before \in Seq(Int) /\ Len(before) = b /\ more \in Seq(Int) /\ Len(more) = m
      BY <2>1, <2>2, <3>1, <3>3
    <3> DEFINE both == before \o more
    <3>5. both = after
      <4>1. /\ both \in Seq(Int) /\ Len(both) = b + m
            /\ \A i \in 1 .. b : both[i] = before[i]
            /\ \A i \in 1 .. m : both[b + i] = more[i]
        BY <3>4, ConcatIs
      <4> HIDE DEF both
      <4>2. both = [i \in 1 .. a |-> both[i]]
        BY <3>1, <4>1
      <4>3. ASSUME NEW i \in 1 .. a PROVE both[i] = offset + i
        <5>1. CASE i <= b
          <6>1. i \in 1 .. b
            BY <2>2, <5>1
          <6>2. QED
            BY <2>1, <4>1, <6>1
        <5>2. CASE i > b
          <6>1. i - b \in 1 .. m /\ b + (i - b) = i
            BY <2>2, <3>1, <5>2
          <6>2. both[i] = more[i - b]
            BY <4>1, <6>1
          <6>3. more[i - b] = start + from + (i - b)
            BY <3>3, <6>1
          <6>4. QED
            BY <2>2, <3>1, <6>1, <6>2, <6>3
        <5>3. QED
          BY <2>2, <5>1, <5>2
      <4>4. QED
        BY <2>1, <4>2, <4>3
    <3>6. new = before \o more
      BY <2>4
    <3>7. QED
      BY <3>5, <3>6
  <2>5. QED
    BY <2>3, <2>4
<1> HIDE DEF new, before, after
<1>4. Cut([start |-> start, places |-> before], rows, offset, end) = [start |-> start + rows, places |-> after]
  BY <1>1, <1>3
<1>5. QED
  BY <1>4 DEF before, after

\* The rows of the batches that are inside of a window are those of the window.
LEMMA OverlapIs ==
  ASSUME NEW batches \in Seq(Nat), NEW offset \in Nat, NEW end \in Nat
  PROVE  Overlap(batches, offset, end) = Places(offset, end, BatchRows(batches))
<1> DEFINE len == Len(batches)
           D == 0 .. len
           sum == RowsThrough(batches)
           begun == [start |-> 0, places |-> <<>>]
           result(n) == [start |-> sum[n], places |-> Places(offset, end, sum[n])]
           g == [n \in D |-> result(n)]
           after == CHOOSE f : f = [n \in D |-> IF n = 0 THEN begun ELSE Cut(f[n - 1], batches[n], offset, end)]
           strange == {n \in D : after[n] # result(n)}
<1>1. len \in Nat
  OBVIOUS
<1>2. Overlap(batches, offset, end) = after[len].places
  BY DEF Overlap, Cut
<1>3. /\ \A n \in D : sum[n] \in Nat
      /\ sum[0] = 0
      /\ \A n \in 1 .. len : sum[n] = sum[n - 1] + batches[n] /\ batches[n] \in Nat
  <2>1. /\ sum \in [D -> Nat] /\ sum[0] = 0
        /\ \A n \in 1 .. len : sum[n] = sum[n - 1] + batches[n]
    BY RowsThroughIs
  <2>2. \A n \in 1 .. len : batches[n] \in Nat
    OBVIOUS
  <2>3. \A n \in D : sum[n] \in Nat
    <3> HIDE DEF sum, D
    <3>1. QED
      BY <2>1
  <2>4. QED
    BY <2>1, <2>2, <2>3
<1>4. result(0) = begun
  <2>1. sum[0] = 0
    BY <1>3
  <2>2. Least({0, end}) = 0
    BY LeastOfTwo
  <2>3. Greater(0, Least({0, end}) - offset) = 0
    BY <2>2 DEF Greater
  <2>4. Places(offset, end, 0) = [i \in 1 .. 0 |-> offset + i]
    BY <2>3 DEF Places
  <2>5. Places(offset, end, 0) = <<>>
    BY <2>4
  <2>6. QED
    BY <2>1, <2>5
<1>5. \A n \in 1 .. len : Cut(result(n - 1), batches[n], offset, end) = result(n)
  <2> SUFFICES ASSUME NEW n \in 1 .. len PROVE Cut(result(n - 1), batches[n], offset, end) = result(n)
    OBVIOUS
  <2>1. sum[n - 1] \in Nat /\ batches[n] \in Nat /\ sum[n] = sum[n - 1] + batches[n]
    BY <1>1, <1>3
  <2> HIDE DEF sum
  <2>2. QED
    BY <2>1, CutIs
<1> HIDE DEF sum, result, begun, len
<1>6. g = [n \in D |-> IF n = 0 THEN begun ELSE Cut(g[n - 1], batches[n], offset, end)]
  <2>1. ASSUME NEW n \in D PROVE g[n] = IF n = 0 THEN begun ELSE Cut(g[n - 1], batches[n], offset, end)
    <3>1. CASE n = 0
      BY <1>4, <3>1
    <3>2. CASE n # 0
      <4>1. n \in 1 .. len /\ n - 1 \in D
        BY <1>1, <3>2
      <4>2. QED
        BY <1>5, <3>2, <4>1
    <3>3. QED
      BY <3>1, <3>2
  <2>2. QED
    BY <2>1
<1>7. after = [n \in D |-> IF n = 0 THEN begun ELSE Cut(after[n - 1], batches[n], offset, end)]
  <2> HIDE DEF g, D
  <2>1. QED
    BY <1>6
<1> HIDE DEF after, g
<1>8. \A n \in D : after[n] = IF n = 0 THEN begun ELSE Cut(after[n - 1], batches[n], offset, end)
  BY <1>7
<1>9. strange = {}
  <2> SUFFICES ASSUME strange # {} PROVE FALSE
    OBVIOUS
  <2>1. strange \in SUBSET Nat
    BY <1>1
  <2> HIDE DEF strange
  <2>2. PICK n \in strange : \A k \in strange : n <= k
    BY <2>1, LeastNatural
  <2>3. n \in D /\ after[n] # result(n)
    BY <2>2 DEF strange
  <2>4. n # 0
    BY <1>4, <1>8, <2>3
  <2>5. n \in 1 .. len /\ n - 1 \in D /\ n - 1 \notin strange
    BY <1>1, <2>1, <2>2, <2>3, <2>4
  <2>6. after[n - 1] = result(n - 1)
    BY <2>5 DEF strange
  <2>7. QED
    BY <1>5, <1>8, <2>3, <2>4, <2>5, <2>6
<1>10. len \in D /\ after[len] = result(len)
  BY <1>1, <1>9
<1>11. BatchRows(batches) = sum[len]
  BY DEF BatchRows, sum, len
<1>12. QED
  BY <1>2, <1>10, <1>11 DEF result

-----------------------------------------------------------------------------
(* Reads of one file.                                                      *)

FileReqs == [op : {"schema", "count", "window"}, offset : Nat, limit : Nat \cup {All}]

\* A read that is over is so for a result, rows and a count that are true.
EndsFor(j, result, out, count, broken) ==
  LET still == IsObject \/ Latest = j.began
      one == IF still THEN {j.began} ELSE 1 .. Latest
  IN /\ (still \/ about.format # "arrow") /\ result = "rows" => \E v \in one : out = Slice(v, j.ask)
     /\ result = "count" => \E v \in one : count = Len(RowsOf(v))
     /\ result = "too_large" => Compressed /\ \E v \in one : Len(RowsOf(v)) > Cap
     /\ result = "invalid" => \/ Compressed /\ \E v \in one : versions[v].bad > 0
                              \/ ~still /\ about.format = "arrow"
     /\ result = "io" => broken > 0
     /\ result = "changed" => IsObject /\ Latest # j.began
     /\ result = "unfit" /\ still => j.ask.limit = All \/ Len(RowsOf(j.began)) > Through(j.ask)
     /\ result # "over"

\* The version that a step of a read is about: as of its beginning, or later.
IsLater(j, v) == v \in j.began .. Latest /\ (IsObject => v = j.began)

\* A read that is under way may end in any step.
MayEnd(j) ==
  /\ DOMAIN j = DOMAIN NoRead
  /\ j.ask \in FileReqs /\ j.began \in 1 .. Latest
  /\ j.tripped = FALSE /\ about.codec # "unknown"
  /\ j.opened \in Nat /\ (IsObject \/ Compressed => j.opened <= 1)

\* Types inferred from all the rows that are asked for hold them.
TypesFitFor(j) ==
  j.ask.limit # All /\ Len(RowsOf(j.of)) <= Through(j.ask) =>
    \A i \in 1 .. Len(RowsOf(j.of)) : RowsOf(j.of)[i] <= j.schema

\* What is known at each step of a read.
ReadIsSound(j, broken) ==
  \/ j = NoRead
  \/ /\ j.pc = "done" /\ j.began \in 1 .. Latest /\ j.ask \in FileReqs
     /\ EndsFor(j, j.result, j.out, j.count, broken)
     /\ IsObject \/ Compressed => j.opened <= 1
  \/ j.pc = "infer" /\ MayEnd(j) /\ about.format = "csv" /\ j.opened = 0
  \/ /\ j.pc = "decode" /\ MayEnd(j) /\ about.format = "csv" /\ j.opened = 1
     /\ IsLater(j, j.of) /\ j.schema \in Nat /\ TypesFitFor(j)
  \/ j.pc \in {"kind", "look"} /\ MayEnd(j) /\ about.format # "csv"
  \/ j.pc = "learn" /\ MayEnd(j) /\ about.format # "csv" /\ IsLater(j, j.key)
  \/ j.pc = "blocks" /\ MayEnd(j) /\ about.format = "arrow" /\ IsLater(j, j.of)
  \/ j.pc = "stream" /\ MayEnd(j) /\ about.format = "stream"

\* What is remembered of a version was learned of it, or of one that replaced it.
KindsAreSound ==
  \A k \in DOMAIN kinds : k \in 1 .. Latest /\ kinds[k] \in k .. Latest /\ (IsObject => kinds[k] = k)

\* The inductive invariant.
FilesInv ==
  /\ about \in ReadFiles
  /\ versions \in Seq(Contents) /\ versions # <<>>
  /\ drops \in Nat
  /\ KindsAreSound
  /\ ReadIsSound(job, drops)

LEMMA VersionIs ==
  ASSUME FilesAssumption, FilesInv, NEW v \in 1 .. Latest
  PROVE  /\ versions[v] \in Contents
         /\ RowsOf(v) \in Seq(Nat) /\ Len(RowsOf(v)) \in Nat /\ versions[v].bad \in Nat
         /\ versions[v].batches \in Seq(Nat) /\ BatchRows(versions[v].batches) = Len(RowsOf(v))
<1>1. versions[v] \in Contents
  BY DEF FilesInv, Latest
<1>2. /\ versions[v] \in [rows : Seq(Nat), batches : Seq(Nat), bad : Nat]
      /\ BatchRows(versions[v].batches) = Len(versions[v].rows)
  BY <1>1 DEF FilesAssumption
<1>3. QED
  BY <1>1, <1>2 DEF RowsOf

LEMMA LatestIs == ASSUME FilesInv PROVE Latest \in Nat /\ Latest >= 1 /\ Latest \in 1 .. Latest
  BY DEF FilesInv, Latest

\* Of at most three stops, one comes first.
LEMMA OneIsFirst ==
  ASSUME NEW x \in Int, NEW y \in Int, NEW z \in Int, NEW a, NEW b, NEW c,
         NEW S \in SUBSET {<<x, 1, a>>, <<y, 2, b>>, <<z, 3, c>>}, S # {}
  PROVE  First(S) \in S
<1> DEFINE p == <<x, 1, a>>
           q == <<y, 2, b>>
           r == <<z, 3, c>>
           before(s, t) == s[1] < t[1] \/ (s[1] = t[1] /\ s[2] <= t[2])
<1>1. /\ before(p, p) /\ before(q, q) /\ before(r, r)
      /\ before(p, q) \/ before(q, p)
      /\ before(p, r) \/ before(r, p)
      /\ before(q, r) \/ before(r, q)
      /\ before(p, q) /\ before(q, r) => before(p, r)
      /\ before(q, p) /\ before(p, r) => before(q, r)
      /\ before(p, r) /\ before(r, q) => before(p, q)
      /\ before(r, p) /\ before(p, q) => before(r, q)
      /\ before(q, r) /\ before(r, p) => before(q, p)
      /\ before(r, q) /\ before(q, p) => before(r, p)
  OBVIOUS
<1>2. S \subseteq {p, q, r}
  OBVIOUS
<1>3. First(S) = CHOOSE s \in S : \A t \in S : before(s, t)
  BY DEF First
<1> HIDE DEF p, q, r, before
<1>4. \E s \in S : \A t \in S : before(s, t)
  <2>1. CASE p \in S /\ \A t \in S : before(p, t)
    BY <2>1
  <2>2. CASE q \in S /\ \A t \in S : before(q, t)
    BY <2>2
  <2>3. CASE r \in S /\ \A t \in S : before(r, t)
    BY <2>3
  <2>4. QED
    BY <1>1, <1>2, <2>1, <2>2, <2>3
<1>5. QED
  BY <1>3, <1>4

\* What stops the bytes is there to stop them, and what is not stopped has all it needs.
LEMMA TakenIs ==
  ASSUME FilesAssumption, FilesInv, NEW v \in 1 .. Latest, NEW n \in Nat \cup {All}, NEW cut \in Nat
  PROVE  LET taken == Taken(v, n, cut)
         IN /\ taken.stop = "none" =>
                 taken.rows = IF n = All \/ n > Len(RowsOf(v)) THEN Len(RowsOf(v)) ELSE n
            /\ taken.stop # "none" =>
                 \/ taken.stop = "io" /\ cut > 0
                 \/ taken.stop = "invalid" /\ Compressed /\ versions[v].bad > 0
                 \/ taken.stop = "over" /\ Compressed /\ Len(RowsOf(v)) > Cap
<1> DEFINE len == Len(RowsOf(v))
           needs == IF n = All \/ n > len THEN len + 1 ELSE n
           stops == {s \in Marked(v, cut) : s[1] < needs}
           taken == Taken(v, n, cut)
<1>1. len \in Nat /\ versions[v].bad \in Nat /\ Cap \in Nat
  BY VersionIs DEF FilesAssumption
<1>2. taken = IF stops = {} THEN [rows |-> IF needs > len THEN len ELSE needs, stop |-> "none"]
              ELSE [rows |-> First(stops)[1], stop |-> First(stops)[3]]
  BY DEF Taken
<1>3. stops \in SUBSET {<<cut - 1, 1, "io">>, <<versions[v].bad - 1, 2, "invalid">>, <<Cap, 3, "over">>}
  BY DEF Marked
<1>4. stops # {} => First(stops) \in stops
  <2> DEFINE x == cut - 1
             y == versions[v].bad - 1
             z == Cap
  <2>1. x \in Int /\ y \in Int /\ z \in Int
    BY <1>1
  <2>2. stops \in SUBSET {<<x, 1, "io">>, <<y, 2, "invalid">>, <<z, 3, "over">>}
    BY <1>3
  <2> HIDE DEF x, y, z, stops
  <2>3. QED
    BY <2>1, <2>2, OneIsFirst
<1>5. \A s \in stops : \/ s[3] = "io" /\ cut > 0
                       \/ s[3] = "invalid" /\ Compressed /\ versions[v].bad > 0
                       \/ s[3] = "over" /\ Compressed /\ len > Cap
  BY DEF Marked
<1>6. \A s \in stops : s[3] # "none"
  BY <1>5
<1>7. stops = {} => taken.stop = "none" /\ taken.rows = IF n = All \/ n > len THEN len ELSE n
  BY <1>1, <1>2 DEF All
<1>8. stops # {} => taken.stop = First(stops)[3]
  BY <1>2
<1> HIDE DEF stops, taken, len, needs
<1>9. /\ taken.stop = "none" => taken.rows = IF n = All \/ n > len THEN len ELSE n
      /\ taken.stop # "none" => \/ taken.stop = "io" /\ cut > 0
                                \/ taken.stop = "invalid" /\ Compressed /\ versions[v].bad > 0
                                \/ taken.stop = "over" /\ Compressed /\ len > Cap
  BY <1>4, <1>5, <1>6, <1>7, <1>8
<1>10. QED
  BY <1>9 DEF taken, len

\* What is so of a version that the read came to is so of one that it may be of.
LEMMA LaterIs ==
  ASSUME FilesInv, NEW j, j.began \in 1 .. Latest, NEW v, IsLater(j, v)
  PROVE  v \in 1 .. Latest /\ v \in IF IsObject \/ Latest = j.began THEN {j.began} ELSE 1 .. Latest
BY LatestIs DEF IsLater

LEMMA SettleIs ==
  ASSUME NEW j, MayEnd(j), NEW result, NEW out, NEW count, NEW broken, EndsFor(j, result, out, count, broken)
  PROVE  ReadIsSound(Settle(j, result, out, count), broken)
<1> DEFINE d == Settle(j, result, out, count)
<1>1. /\ d.pc = "done" /\ d.began = j.began /\ d.ask = j.ask /\ d.opened = j.opened
      /\ d.result = result /\ d.out = out /\ d.count = count
  BY DEF MayEnd, Settle, OrTooLarge, NoRead
<1>2. EndsFor(d, d.result, d.out, d.count, broken)
  BY <1>1 DEF EndsFor
<1>3. d.began \in 1 .. Latest /\ d.ask \in FileReqs /\ (IsObject \/ Compressed => d.opened <= 1)
  BY <1>1 DEF MayEnd
<1>4. QED
  BY <1>1, <1>2, <1>3 DEF ReadIsSound

\* A read fails for a cause.
LEMMA FailReadIs ==
  ASSUME NEW j, MayEnd(j), NEW result, NEW broken,
         \/ result \in {"undecodable", "cancelled"}
         \/ result = "io" /\ broken > 0
         \/ result = "changed" /\ IsObject /\ Latest # j.began
  PROVE  ReadIsSound(FailRead(j, result), broken)
<1>1. EndsFor(j, result, <<>>, 0, broken)
  BY DEF EndsFor
<1>2. QED
  BY <1>1, SettleIs DEF FailRead

\* Bytes stop for a cause.
LEMMA StoppedIs ==
  ASSUME FilesInv, NEW j, MayEnd(j), NEW broken, NEW v, IsLater(j, v), NEW stop,
         \/ stop = "io" /\ broken > 0
         \/ stop = "invalid" /\ Compressed /\ versions[v].bad > 0
         \/ stop = "over" /\ Compressed /\ Len(RowsOf(v)) > Cap
  PROVE  ReadIsSound(Stopped(j, stop), broken)
<1> DEFINE t == [j EXCEPT !.tripped = stop = "over"]
           d == Stopped(j, stop)
           result == IF stop = "over" THEN "too_large" ELSE stop
<1>1. d = Settle(t, stop, <<>>, 0)
  BY DEF Stopped, FailRead, DecodeError
<1>2. /\ d.pc = "done" /\ d.began = j.began /\ d.ask = j.ask /\ d.opened = j.opened
      /\ d.result = result
  BY <1>1 DEF MayEnd, Settle, OrTooLarge, NoRead
<1>3. /\ result # "rows" /\ result # "count" /\ result # "changed" /\ result # "unfit" /\ result # "over"
      /\ result = "io" => broken > 0
      /\ result = "invalid" => Compressed /\ versions[v].bad > 0
      /\ result = "too_large" => Compressed /\ Len(RowsOf(v)) > Cap
  OBVIOUS
<1>4. v \in IF IsObject \/ Latest = j.began THEN {j.began} ELSE 1 .. Latest
  BY LaterIs DEF MayEnd
<1> HIDE DEF result, t, d
<1>5. EndsFor(d, d.result, d.out, d.count, broken)
  BY <1>2, <1>3, <1>4 DEF EndsFor
<1>6. d.began \in 1 .. Latest /\ d.ask \in FileReqs /\ (IsObject \/ Compressed => d.opened <= 1)
  BY <1>2 DEF MayEnd
<1>7. ReadIsSound(d, broken)
  BY <1>2, <1>5, <1>6 DEF ReadIsSound
<1>8. QED
  BY <1>7 DEF d

LEMMA ThroughIs ==
  ASSUME NEW req \in FileReqs
  PROVE  /\ Through(req) \in Nat \cup {All}
         /\ Through(req) = All <=> req.limit = All
         /\ req.limit # All => Through(req) = req.offset + req.limit
         /\ req.offset \in Nat
BY DEF FileReqs, Through, All

\* All the rows, or those through the end of the window, have the window.
LEMMA WindowIsSlice ==
  ASSUME FilesAssumption, FilesInv, NEW v \in 1 .. Latest, NEW req \in FileReqs, NEW rows,
         \/ rows = Len(RowsOf(v))
         \/ rows \in Nat /\ Through(req) # All /\ rows >= Through(req) /\ rows <= Len(RowsOf(v))
  PROVE  WindowOf(v, req, rows) = Slice(v, req)
<1> DEFINE len == Len(RowsOf(v))
<1>1. len \in Nat
  BY VersionIs
<1>2. CASE rows = len
  BY <1>2 DEF Slice
<1>3. CASE rows \in Nat /\ Through(req) # All /\ rows >= Through(req) /\ rows <= len
  <2>1. req.limit # All /\ req.offset + req.limit \in Nat /\ req.offset + req.limit <= rows
    BY <1>3, ThroughIs DEF FileReqs
  <2>2. Least({rows, req.offset + req.limit}) = Least({len, req.offset + req.limit})
    BY <1>1, <1>3, <2>1, LeastOfTwo
  <2>3. QED
    BY <2>1, <2>2 DEF Slice, WindowOf
<1>4. QED
  BY <1>2, <1>3

\* Whole batches that hold n rows hold no less.
LEMMA BatchEndIs ==
  ASSUME NEW s \in Nat \ {0}, NEW i \in Nat
  PROVE  ((i + s - 1) \div s) * s \in Nat /\ ((i + s - 1) \div s) * s >= i
<1> DEFINE a == i + s - 1
           q == a \div s
<1>1. a \in Nat /\ q \in Int
  OBVIOUS
<1>2. a = s * q + (a % s) /\ 0 <= a % s /\ a % s < s
  BY <1>1
<1>3. q * s >= i
  BY <1>1, <1>2
<1>4. q * s \in Nat
  BY <1>1, <1>3
<1>5. QED
  BY <1>3, <1>4

LEMMA ToDecodeIs ==
  ASSUME FilesAssumption, NEW n \in Nat \cup {All}
  PROVE  /\ ToDecode(n) \in Nat \cup {All}
         /\ ToDecode(n) = All <=> n = All
         /\ n # All => ToDecode(n) >= n
<1>1. CASE n = All
  BY <1>1 DEF ToDecode
<1>2. CASE n # All
  <2>1. n \in Nat /\ BatchSize \in Nat \ {0}
    BY <1>2 DEF FilesAssumption
  <2>2. Greater(n, 1) \in Nat \ {0} /\ Greater(n, 1) >= n
    BY <2>1 DEF Greater
  <2>3. Size(n) \in Nat \ {0}
    <3>1. Size(n) = Least({BatchSize, Greater(n, 1)})
      BY <1>2 DEF Size
    <3>2. QED
      BY <2>1, <2>2, <3>1, LeastOfTwo
  <2>4. ToDecode(n) = ((Greater(n, 1) + Size(n) - 1) \div Size(n)) * Size(n)
    BY <1>2 DEF ToDecode, BatchEnd
  <2>5. ToDecode(n) \in Nat /\ ToDecode(n) >= Greater(n, 1)
    BY <2>2, <2>3, <2>4, BatchEndIs
  <2>6. QED
    BY <1>2, <2>1, <2>2, <2>5 DEF All
<1>3. QED
  BY <1>1, <1>2

\* The widest of the first rows.
LEMMA WidestIs ==
  ASSUME FilesAssumption, FilesInv, NEW v \in 1 .. Latest, NEW n \in 0 .. Len(RowsOf(v))
  PROVE  /\ Widest(v, n) \in Nat
         /\ \A i \in 1 .. n : RowsOf(v)[i] <= Widest(v, n)
<1> DEFINE rows == RowsOf(v)
           S == {0} \cup {rows[i] : i \in 1 .. n}
<1>1. rows \in Seq(Nat) /\ Len(rows) \in Nat
  BY VersionIs
<1>2. S \in SUBSET Nat /\ S # {}
  BY <1>1
<1>3. PICK most \in Nat : \A i \in 1 .. Len(rows) : rows[i] <= most
  BY <1>1, SeqBounded
<1>4. \E m \in Nat : \A s \in S : s <= m
  <2>1. \A i \in 1 .. n : rows[i] <= most
    BY <1>1, <1>3
  <2>2. \A s \in S : s = 0 \/ \E i \in 1 .. n : s = rows[i]
    OBVIOUS
  <2> HIDE DEF S, rows
  <2>3. \A s \in S : s <= most
    BY <1>3, <2>1, <2>2
  <2>4. QED
    BY <1>3, <2>3
<1>5. Max(S) \in S /\ \A s \in S : s <= Max(S)
  <2> HIDE DEF S
  <2>1. PICK m \in Nat : \A s \in S : s <= m
    BY <1>4
  <2>2. QED
    BY <1>2, <2>1, Largest
<1>6. Widest(v, n) = Max(S)
  BY DEF Widest
<1>7. \A i \in 1 .. n : rows[i] \in S
  OBVIOUS
<1> HIDE DEF S
<1>8. QED
  BY <1>2, <1>5, <1>6, <1>7

LEMMA CutsAre == ASSUME FilesAssumption, FilesInv, NEW v \in 1 .. Latest PROVE Cuts(v) \subseteq Nat
  BY VersionIs DEF Cuts

\* A step that leaves the file alone leaves what is said of it so.
LEMMA FileKeeps ==
  ASSUME FilesInv, Unchanged, drops' \in Nat,
         \A k \in DOMAIN kinds' : k \in 1 .. Latest /\ kinds'[k] \in k .. Latest /\ (IsObject => kinds'[k] = k),
         ReadIsSound(job', drops')
  PROVE  FilesInv'
<1>1. about' = about /\ versions' = versions
  BY DEF Unchanged
<1>2. ReadIsSound(job, drops)'
  <2>1. /\ Latest' = Latest /\ (IsObject' <=> IsObject) /\ (Compressed' <=> Compressed)
        /\ \A v : RowsOf(v)' = RowsOf(v)
    BY <1>1 DEF Latest, IsObject, Compressed, RowsOf
  <2>2. \A v, req : Slice(v, req)' = Slice(v, req)
    BY <2>1 DEF Slice, WindowOf
  <2>3. EndsFor(job', job'.result, job'.out, job'.count, drops') =>
          EndsFor(job, job.result, job.out, job.count, drops)'
    BY <1>1, <2>1, <2>2 DEF EndsFor
  <2>4. MayEnd(job') => MayEnd(job)'
    BY <1>1, <2>1 DEF MayEnd
  <2>5. TypesFitFor(job') => TypesFitFor(job)'
    BY <2>1 DEF TypesFitFor
  <2>6. \A v : IsLater(job', v) => IsLater(job, v)'
    BY <2>1 DEF IsLater
  <2>7. QED
    BY <1>1, <2>1, <2>3, <2>4, <2>5, <2>6 DEF ReadIsSound
<1>3. KindsAreSound'
  BY <1>1 DEF KindsAreSound, IsObject, Latest
<1>4. QED
  BY <1>1, <1>2, <1>3 DEF FilesInv

\* So does one that takes a step of a read.
LEMMA BecomesKeeps ==
  ASSUME FilesInv, Unchanged, UNCHANGED kinds, NEW j, NEW cut \in Nat, ReadBecomes(j, cut),
         ReadIsSound(j, drops + (IF cut > 0 THEN 1 ELSE 0))
  PROVE  FilesInv'
<1>1. drops \in Nat /\ KindsAreSound
  BY DEF FilesInv
<1>2. drops' = drops + (IF cut > 0 THEN 1 ELSE 0) /\ job' = j
  BY DEF ReadBecomes
<1>3. drops' \in Nat
  BY <1>1, <1>2
<1>4. ReadIsSound(job', drops')
  BY <1>2
<1>5. QED
  BY <1>1, <1>3, <1>4, FileKeeps DEF KindsAreSound

\* A step of a read that is under way, by where it is.
LEMMA UnderWay ==
  ASSUME FilesInv, job.pc \in {"infer", "decode", "kind", "look", "learn", "blocks", "stream"}
  PROVE  /\ MayEnd(job) /\ drops \in Nat
         /\ job.pc \in {"infer", "decode"} <=> about.format = "csv"
         /\ job.pc = "infer" => job.opened = 0
         /\ job.pc = "decode" =>
              job.opened = 1 /\ IsLater(job, job.of) /\ job.schema \in Nat /\ TypesFitFor(job)
         /\ job.pc = "learn" => IsLater(job, job.key)
         /\ job.pc = "blocks" => about.format = "arrow" /\ IsLater(job, job.of)
         /\ job.pc = "stream" => about.format = "stream"
BY DEF FilesInv, ReadIsSound, NoRead

LEMMA CancelledInv == ASSUME FilesAssumption, FilesInv, Cancelled PROVE FilesInv'
<1>1. MayEnd(job) /\ drops \in Nat
  BY UnderWay DEF Cancelled
<1>2. ReadIsSound(FailRead(job, "cancelled"), drops)
  BY <1>1, FailReadIs
<1>3. Unchanged /\ UNCHANGED kinds /\ drops' = drops /\ job' = FailRead(job, "cancelled")
  BY DEF Cancelled
<1>4. QED
  BY <1>1, <1>2, <1>3, FileKeeps DEF FilesInv, KindsAreSound

LEMMA FilesInitInv == ASSUME FilesAssumption, FilesInit PROVE FilesInv
<1>1. about \in ReadFiles /\ drops = 0 /\ kinds = <<>> /\ job = NoRead
  BY DEF FilesInit
<1>2. versions \in Seq(Contents) /\ versions # <<>>
  <2>1. PICK c \in Contents : versions = <<c>>
    BY DEF FilesInit
  <2>2. QED
    BY <2>1
<1>3. KindsAreSound
  BY <1>1 DEF KindsAreSound
<1>4. ReadIsSound(job, drops)
  BY <1>1 DEF ReadIsSound
<1>5. QED
  BY <1>1, <1>2, <1>3, <1>4 DEF FilesInv

LEMMA StartInv ==
  ASSUME FilesAssumption, FilesInv, NEW req \in ReadAsks, Start(req)
  PROVE  FilesInv'
<1> DEFINE first == IF about.format = "csv" THEN "infer" ELSE "kind"
           j == [NoRead EXCEPT !.ask = req, !.first = Latest, !.began = Latest, !.pc = first]
<1>1. req \in FileReqs /\ Latest \in 1 .. Latest
  BY LatestIs DEF FilesAssumption, FileReqs
<1>2. /\ j.pc = first /\ j.ask = req /\ j.began = Latest /\ j.tripped = FALSE /\ j.opened = 0
      /\ DOMAIN j = DOMAIN NoRead
  <2> HIDE DEF first
  <2>1. QED
    BY DEF NoRead
<1>3. /\ job' = CASE req.op = "count" /\ ~Counts -> Settle(j, "uncounted", <<>>, 0)
                  [] (req.op # "count" \/ Counts) /\ about.codec = "unknown" -> FailRead(j, "undecodable")
                  [] OTHER -> j
      /\ Unchanged /\ UNCHANGED <<kinds, drops>>
  BY DEF Start
<1>4. \A r, b : r \in {"uncounted", "undecodable"} => ReadIsSound(Settle(j, r, <<>>, 0), b)
  <2> SUFFICES ASSUME NEW r \in {"uncounted", "undecodable"}, NEW b
               PROVE  ReadIsSound(Settle(j, r, <<>>, 0), b)
    OBVIOUS
  <2> DEFINE d == Settle(j, r, <<>>, 0)
  <2>1. /\ d.pc = "done" /\ d.began = Latest /\ d.ask = req /\ d.opened = 0
        /\ d.result = r /\ d.out = <<>> /\ d.count = 0
    <3> HIDE DEF j
    <3>1. QED
      BY <1>2 DEF Settle, OrTooLarge, NoRead
  <2> HIDE DEF d, j
  <2>2. EndsFor(d, d.result, d.out, d.count, b)
    BY <2>1 DEF EndsFor
  <2>3. ReadIsSound(d, b)
    BY <1>1, <2>1, <2>2 DEF ReadIsSound
  <2>4. QED
    BY <2>3 DEF d
<1>5. about.codec # "unknown" => ReadIsSound(j, drops)
  <2> SUFFICES ASSUME about.codec # "unknown" PROVE ReadIsSound(j, drops)
    OBVIOUS
  <2>1. j.pc = first /\ j.opened = 0
    BY <1>2
  <2>2. MayEnd(j)
    <3> HIDE DEF j, first
    <3>1. QED
      BY <1>1, <1>2 DEF MayEnd
  <2>3. first = IF about.format = "csv" THEN "infer" ELSE "kind"
    OBVIOUS
  <2> HIDE DEF j, first
  <2>4. QED
    BY <2>1, <2>2, <2>3 DEF ReadIsSound
<1>6. ReadIsSound(job', drops)
  <2> HIDE DEF j
  <2>1. CASE req.op = "count" /\ ~Counts
    <3>1. job' = Settle(j, "uncounted", <<>>, 0)
      BY <1>3, <2>1
    <3>2. QED
      BY <1>4, <3>1
  <2>2. CASE (req.op # "count" \/ Counts) /\ about.codec = "unknown"
    <3>1. job' = Settle(j, "undecodable", <<>>, 0)
      BY <1>3, <2>2 DEF FailRead
    <3>2. QED
      BY <1>4, <3>1
  <2>3. CASE (req.op # "count" \/ Counts) /\ about.codec # "unknown"
    <3>1. job' = j
      BY <1>3, <2>3
    <3>2. QED
      BY <1>5, <2>3, <3>1
  <2>4. QED
    BY <2>1, <2>2, <2>3
<1>7. QED
  BY <1>3, <1>6, FileKeeps DEF FilesInv, KindsAreSound

LEMMA ReplaceInv ==
  ASSUME FilesAssumption, FilesInv, NEW content \in Contents, Replace(content)
  PROVE  FilesInv'
<1>1. /\ versions' = Append(versions, content)
      /\ about' = about /\ kinds' = kinds /\ job' = job /\ drops' = drops
  BY DEF Replace
<1>2. /\ versions \in Seq(Contents) /\ versions # <<>> /\ about \in ReadFiles /\ drops \in Nat
      /\ KindsAreSound /\ ReadIsSound(job, drops)
  BY DEF FilesInv
<1>3. /\ versions' \in Seq(Contents) /\ versions' # <<>> /\ Latest' = Latest + 1 /\ Latest \in Nat
      /\ \A v \in 1 .. Latest : versions'[v] = versions[v]
  BY <1>1, <1>2 DEF Latest
<1>4. (IsObject' <=> IsObject) /\ (Compressed' <=> Compressed)
  BY <1>1 DEF IsObject, Compressed
<1>5. \A v \in 1 .. Latest : RowsOf(v)' = RowsOf(v) /\ \A req : Slice(v, req)' = Slice(v, req)
  BY <1>3 DEF RowsOf, Slice, WindowOf
<1>6. KindsAreSound'
  BY <1>1, <1>2, <1>3, <1>4 DEF KindsAreSound
<1>7. MayEnd(job) => MayEnd(job)'
  BY <1>1, <1>3, <1>4 DEF MayEnd
<1>8. \A v : job.began \in 1 .. Latest /\ IsLater(job, v) => IsLater(job, v)' /\ v \in 1 .. Latest
  BY <1>1, <1>3, <1>4 DEF IsLater
<1>9. job.of \in 1 .. Latest /\ TypesFitFor(job) => TypesFitFor(job)'
  BY <1>1, <1>5 DEF TypesFitFor
<1>10. job.began \in 1 .. Latest /\ EndsFor(job, job.result, job.out, job.count, drops) =>
         EndsFor(job, job.result, job.out, job.count, drops)'
  <2> SUFFICES ASSUME job.began \in 1 .. Latest, EndsFor(job, job.result, job.out, job.count, drops)
               PROVE  EndsFor(job, job.result, job.out, job.count, drops)'
    OBVIOUS
  <2> DEFINE still == IsObject \/ Latest = job.began
             one == IF still THEN {job.began} ELSE 1 .. Latest
             oneNext == IF IsObject \/ Latest + 1 = job.began THEN {job.began} ELSE 1 .. Latest + 1
  <2>1. one \subseteq oneNext /\ one \subseteq 1 .. Latest
    BY <1>3
  <2>2. ~still => ~(IsObject \/ Latest + 1 = job.began)
    BY <1>3
  <2>3. job.result = "unfit" /\ (IsObject \/ Latest + 1 = job.began) => still
    BY <1>3
  <2>4. job.result = "changed" => IsObject /\ Latest + 1 # job.began
    BY <1>3 DEF EndsFor
  <2>5. QED
    BY <1>1, <1>3, <1>4, <1>5, <2>1, <2>2, <2>3, <2>4 DEF EndsFor
<1>11. job.began \in 1 .. Latest => job.began \in 1 .. Latest'
  BY <1>3
<1>12. job = NoRead => ReadIsSound(job, drops)'
  BY <1>1 DEF ReadIsSound, NoRead
<1>13. job # NoRead => job.began \in 1 .. Latest
  BY <1>2 DEF ReadIsSound, MayEnd
<1>14. ReadIsSound(job, drops)'
  BY <1>1, <1>2, <1>4, <1>7, <1>8, <1>9, <1>10, <1>11, <1>12, <1>13 DEF ReadIsSound
<1>15. QED
  BY <1>1, <1>2, <1>3, <1>6, <1>14 DEF FilesInv

LEMMA InferInv == ASSUME FilesAssumption, FilesInv, Infer PROVE FilesInv'
<1>1. job.pc = "infer" /\ Unchanged /\ UNCHANGED kinds
  BY DEF Infer
<1>2. MayEnd(job) /\ drops \in Nat /\ about.format = "csv" /\ job.opened = 0
  BY <1>1, UnderWay
<1>3. PICK cut \in Cuts(Latest) :
        LET taken == Taken(Latest, InferOver(job.ask), cut)
            j == [job EXCEPT !.opened = @ + 1, !.of = Latest, !.schema = Widest(Latest, taken.rows), !.pc = "decode"]
        IN IF Refused(job) THEN cut = 0 /\ ReadBecomes(FailRead(job, "changed"), 0)
           ELSE /\ taken.stop = "io" <=> cut > 0
                /\ ReadBecomes(CASE taken.stop # "none" -> Stopped(j, taken.stop)
                                 [] taken.stop = "none" /\ job.ask.op = "schema" -> Settle(j, "schema", <<>>, 0)
                                 [] OTHER -> j, cut)
  BY DEF Infer
<1> DEFINE over == InferOver(job.ask)
           taken == Taken(Latest, over, cut)
           j == [job EXCEPT !.opened = @ + 1, !.of = Latest, !.schema = Widest(Latest, taken.rows), !.pc = "decode"]
           len == Len(RowsOf(Latest))
           broken == drops + (IF cut > 0 THEN 1 ELSE 0)
<1>4. Latest \in 1 .. Latest /\ cut \in Nat
  BY LatestIs, CutsAre
<1>5. CASE Refused(job)
  <2>1. ReadBecomes(FailRead(job, "changed"), 0)
    BY <1>3, <1>5
  <2>2. ReadIsSound(FailRead(job, "changed"), drops + 0)
    BY <1>2, <1>5, FailReadIs DEF Refused
  <2>3. QED
    BY <1>1, <2>1, <2>2, BecomesKeeps
<1>6. CASE ~Refused(job)
  <2>1. /\ taken.stop = "io" <=> cut > 0
        /\ ReadBecomes(CASE taken.stop # "none" -> Stopped(j, taken.stop)
                         [] taken.stop = "none" /\ job.ask.op = "schema" -> Settle(j, "schema", <<>>, 0)
                         [] OTHER -> j, cut)
    BY <1>3, <1>6
  <2>2. IsLater(job, Latest)
    BY <1>2, <1>4, <1>6 DEF IsLater, Refused, MayEnd
  <2>3. /\ j.pc = "decode" /\ j.ask = job.ask /\ j.began = job.began /\ j.of = Latest /\ j.opened = 1
        /\ j.tripped = job.tripped /\ j.schema = Widest(Latest, taken.rows) /\ DOMAIN j = DOMAIN job
    <3> HIDE DEF taken
    <3>1. QED
      BY <1>2 DEF MayEnd, NoRead
  <2>4. /\ over \in Nat \cup {All}
        /\ job.ask.op # "schema" /\ job.ask.limit # All => over \in Nat /\ over >= Through(job.ask)
    BY <1>2, ThroughIs DEF MayEnd, InferOver, Greater, FilesAssumption, All
  <2>5. /\ taken.stop = "none" => taken.rows = IF over = All \/ over > len THEN len ELSE over
        /\ taken.stop # "none" => \/ taken.stop = "io" /\ cut > 0
                                  \/ taken.stop = "invalid" /\ Compressed /\ versions[Latest].bad > 0
                                  \/ taken.stop = "over" /\ Compressed /\ len > Cap
    <3> HIDE DEF over
    <3>1. QED
      BY <1>4, <2>4, TakenIs
  <2>6. len \in Nat
    BY <1>4, VersionIs
  <2> HIDE DEF taken, j, over, len
  <2>7. MayEnd(j)
    BY <1>2, <2>3 DEF MayEnd
  <2>8. IsLater(j, Latest)
    BY <2>2, <2>3 DEF IsLater
  <2>9. CASE taken.stop # "none"
    <3>1. ReadBecomes(Stopped(j, taken.stop), cut)
      BY <2>1, <2>9
    <3>2. ReadIsSound(Stopped(j, taken.stop), broken)
      <4>1. \/ taken.stop = "io" /\ broken > 0
            \/ taken.stop = "invalid" /\ Compressed /\ versions[Latest].bad > 0
            \/ taken.stop = "over" /\ Compressed /\ Len(RowsOf(Latest)) > Cap
        BY <1>2, <2>5, <2>9 DEF len
      <4> HIDE DEF broken
      <4>2. QED
        BY <2>7, <2>8, <4>1, StoppedIs
    <3>3. QED
      BY <1>1, <1>4, <3>1, <3>2, BecomesKeeps
  <2>10. CASE taken.stop = "none" /\ job.ask.op = "schema"
    <3>1. ReadBecomes(Settle(j, "schema", <<>>, 0), cut)
      BY <2>1, <2>10
    <3>2. EndsFor(j, "schema", <<>>, 0, broken)
      BY DEF EndsFor
    <3>3. ReadIsSound(Settle(j, "schema", <<>>, 0), broken)
      BY <2>7, <3>2, SettleIs
    <3>4. QED
      BY <1>1, <1>4, <3>1, <3>3, BecomesKeeps
  <2>11. CASE taken.stop = "none" /\ job.ask.op # "schema"
    <3>1. ReadBecomes(j, cut)
      BY <2>1, <2>11
    <3>2. taken.rows = (IF over = All \/ over > len THEN len ELSE over) /\ taken.rows \in 0 .. len
      BY <2>4, <2>5, <2>6, <2>11
    <3>3. j.schema \in Nat /\ \A i \in 1 .. taken.rows : RowsOf(Latest)[i] <= j.schema
      BY <1>4, <2>3, <3>2, WidestIs DEF len
    <3>4. TypesFitFor(j)
      <4> SUFFICES ASSUME job.ask.limit # All, len <= Through(job.ask)
                   PROVE  \A i \in 1 .. len : RowsOf(Latest)[i] <= j.schema
        BY <2>3 DEF TypesFitFor, len
      <4>1. Through(job.ask) \in Nat
        BY <1>2, ThroughIs DEF MayEnd
      <4>2. taken.rows = len
        BY <2>4, <2>6, <2>11, <3>2, <4>1 DEF All
      <4>3. QED
        BY <3>3, <4>2
    <3>5. ReadIsSound(j, broken)
      BY <1>2, <2>3, <2>7, <2>8, <3>3, <3>4 DEF ReadIsSound
    <3>6. QED
      BY <1>1, <1>4, <3>1, <3>5, BecomesKeeps
  <2>12. QED
    BY <2>9, <2>10, <2>11
<1>7. QED
  BY <1>5, <1>6

\* What follows once the layout is known, of a version that the read may be of.
LEMMA KnownIs ==
  ASSUME FilesAssumption, FilesInv, about.format # "csv", NEW j, MayEnd(j), j.pc = "kind", NEW w, IsLater(j, w),
         NEW broken
  PROVE  ReadIsSound(Known(j, w), broken)
<1>1. about.format \in {"arrow", "stream"}
  BY DEF FilesAssumption, FilesInv
<1>2. w \in 1 .. Latest /\ w \in IF IsObject \/ Latest = j.began THEN {j.began} ELSE 1 .. Latest
  BY LaterIs DEF MayEnd
<1>3. CASE j.ask.op = "schema"
  <2> DEFINE k == [j EXCEPT !.pc = "look", !.of = w]
  <2>1. Known(j, w) = k
    BY <1>3 DEF Known
  <2>2. /\ k.pc = "look" /\ k.began = j.began /\ k.opened = j.opened /\ k.tripped = j.tripped /\ DOMAIN k = DOMAIN j
        /\ k.ask = j.ask
    BY DEF MayEnd, NoRead
  <2> HIDE DEF k
  <2>3. MayEnd(k)
    BY <2>2 DEF MayEnd
  <2>4. ReadIsSound(k, broken)
    BY <2>2, <2>3 DEF ReadIsSound
  <2>5. QED
    BY <2>1, <2>4
<1>4. CASE j.ask.op = "count" /\ about.format = "arrow"
  <2>1. Known(j, w) = Settle(j, "count", <<>>, BatchRows(versions[w].batches))
    BY <1>4 DEF Known
  <2>2. BatchRows(versions[w].batches) = Len(RowsOf(w))
    BY <1>2, VersionIs
  <2>3. EndsFor(j, "count", <<>>, BatchRows(versions[w].batches), broken)
    BY <1>2, <2>2 DEF EndsFor
  <2>4. QED
    BY <2>1, <2>3, SettleIs
<1>5. CASE j.ask.op = "count" /\ about.format = "stream"
  <2>1. Known(j, w) = Settle(j, "uncounted", <<>>, 0)
    BY <1>5 DEF Known
  <2>2. EndsFor(j, "uncounted", <<>>, 0, broken)
    BY DEF EndsFor
  <2>3. QED
    BY <2>1, <2>2, SettleIs
<1>6. CASE j.ask.op \notin {"schema", "count"}
  <2> DEFINE k == [j EXCEPT !.pc = IF about.format = "arrow" THEN "blocks" ELSE "stream", !.of = w]
  <2>1. Known(j, w) = k
    BY <1>6 DEF Known
  <2>2. /\ k.pc = IF about.format = "arrow" THEN "blocks" ELSE "stream"
        /\ k.ask = j.ask /\ k.began = j.began /\ k.of = w /\ k.opened = j.opened /\ k.tripped = j.tripped
        /\ DOMAIN k = DOMAIN j
    BY DEF MayEnd, NoRead
  <2> HIDE DEF k
  <2>3. MayEnd(k) /\ IsLater(k, w)
    BY <2>2 DEF MayEnd, IsLater
  <2>4. ReadIsSound(k, broken)
    BY <1>1, <2>2, <2>3 DEF ReadIsSound
  <2>5. QED
    BY <2>1, <2>4
<1>7. QED
  BY <1>1, <1>3, <1>4, <1>5, <1>6

LEMMA DecodeInv == ASSUME FilesAssumption, FilesInv, Decode PROVE FilesInv'
<1> DEFINE v == IF Reopens THEN Latest ELSE job.of
           n == Through(job.ask)
           len == Len(RowsOf(v))
           taken(cut) == Taken(v, ToDecode(n), cut)
           wide == {i \in 1 .. len : RowsOf(v)[i] > job.schema /\ (n # All => i <= ToDecode(n))}
           unfit(cut) == wide # {} /\ (taken(cut).stop = "none" \/ BatchEnd(n, Least(wide)) <= taken(cut).rows)
           j == [job EXCEPT !.opened = @ + (IF Reopens THEN 1 ELSE 0)]
<1>1. job.pc = "decode" /\ Unchanged /\ UNCHANGED kinds
  BY DEF Decode
<1>2. /\ MayEnd(job) /\ drops \in Nat /\ about.format = "csv" /\ job.opened = 1
      /\ IsLater(job, job.of) /\ TypesFitFor(job)
  BY <1>1, UnderWay
<1>3. PICK cut \in Cuts(v) :
        /\ (taken(cut).stop = "io" /\ ~unfit(cut)) <=> cut > 0
        /\ ReadBecomes(CASE unfit(cut) -> FailRead(j, "unfit")
                         [] ~unfit(cut) /\ taken(cut).stop # "none" -> Stopped(j, taken(cut).stop)
                         [] OTHER -> Settle(j, "rows", WindowOf(v, job.ask, taken(cut).rows), 0), cut)
  BY DEF Decode
<1> DEFINE broken == drops + (IF cut > 0 THEN 1 ELSE 0)
<1>4. IsLater(job, v)
  BY <1>2, LatestIs DEF Reopens, IsLater, MayEnd
<1>5. v \in 1 .. Latest
  BY <1>2, <1>4, LaterIs DEF MayEnd
<1>6. cut \in Nat /\ len \in Nat
  BY <1>5, CutsAre, VersionIs
<1>7. /\ j.began = job.began /\ j.ask = job.ask /\ j.of = job.of /\ j.tripped = job.tripped /\ DOMAIN j = DOMAIN job
      /\ j.opened = job.opened + (IF Reopens THEN 1 ELSE 0)
  BY <1>2 DEF MayEnd, NoRead
<1>8. n \in Nat \cup {All} /\ (n = All <=> job.ask.limit = All) /\ job.ask \in FileReqs
  BY <1>2, ThroughIs DEF MayEnd
<1>9. /\ ToDecode(n) \in Nat \cup {All} /\ (ToDecode(n) = All <=> n = All)
      /\ n # All => ToDecode(n) >= n
  BY <1>8, ToDecodeIs
<1>10. /\ taken(cut).stop = "none" => taken(cut).rows = IF ToDecode(n) = All \/ ToDecode(n) > len THEN len ELSE ToDecode(n)
       /\ taken(cut).stop # "none" => \/ taken(cut).stop = "io" /\ cut > 0
                                      \/ taken(cut).stop = "invalid" /\ Compressed /\ versions[v].bad > 0
                                      \/ taken(cut).stop = "over" /\ Compressed /\ len > Cap
  <2> DEFINE m == ToDecode(n)
  <2>1. m \in Nat \cup {All}
    BY <1>9
  <2> HIDE DEF m, v
  <2>2. QED
    BY <1>5, <1>6, <2>1, TakenIs DEF m
<1>11. MayEnd(j) /\ IsLater(j, v)
  <2>1. j.opened \in Nat /\ (IsObject \/ Compressed => j.opened <= 1)
    BY <1>2, <1>7 DEF Reopens
  <2> HIDE DEF j, v
  <2>2. QED
    BY <1>2, <1>4, <1>7, <2>1 DEF MayEnd, IsLater
<1>12. wide # {} /\ (IsObject \/ Latest = job.began) => job.ask.limit = All \/ Len(RowsOf(job.began)) > n
  <2> SUFFICES ASSUME wide # {}, IsObject \/ Latest = job.began, job.ask.limit # All, Len(RowsOf(job.began)) <= n
               PROVE  FALSE
    BY <1>2, <1>8, VersionIs DEF MayEnd, All
  <2>1. v = job.began /\ job.of = job.began
    BY <1>2, <1>4 DEF IsLater, MayEnd
  <2>2. \A i \in 1 .. len : RowsOf(v)[i] <= job.schema
    BY <1>2, <2>1 DEF TypesFitFor
  <2>3. job.schema \in Nat /\ RowsOf(v) \in Seq(Nat)
    BY <1>1, <1>5, UnderWay, VersionIs
  <2>4. \A i \in 1 .. len : ~(RowsOf(v)[i] > job.schema)
    BY <2>2, <2>3
  <2>5. QED
    BY <2>4
<1> HIDE DEF v, n, len, taken, wide, j, broken
<1>13. CASE unfit(cut)
  <2>1. ReadBecomes(FailRead(j, "unfit"), cut)
    BY <1>3, <1>13
  <2>2. EndsFor(j, "unfit", <<>>, 0, broken)
    BY <1>7, <1>12, <1>13 DEF EndsFor, n
  <2>3. ReadIsSound(FailRead(j, "unfit"), broken)
    BY <1>11, <2>2, SettleIs DEF FailRead
  <2>4. QED
    BY <1>1, <1>6, <2>1, <2>3, BecomesKeeps DEF broken
<1>14. CASE ~unfit(cut) /\ taken(cut).stop # "none"
  <2>1. ReadBecomes(Stopped(j, taken(cut).stop), cut)
    BY <1>3, <1>14
  <2>2. \/ taken(cut).stop = "io" /\ broken > 0
        \/ taken(cut).stop = "invalid" /\ Compressed /\ versions[v].bad > 0
        \/ taken(cut).stop = "over" /\ Compressed /\ Len(RowsOf(v)) > Cap
    BY <1>2, <1>10, <1>14 DEF len, broken
  <2>3. ReadIsSound(Stopped(j, taken(cut).stop), broken)
    BY <1>11, <2>2, StoppedIs
  <2>4. QED
    BY <1>1, <1>6, <2>1, <2>3, BecomesKeeps DEF broken
<1>15. CASE ~unfit(cut) /\ taken(cut).stop = "none"
  <2> DEFINE rows == taken(cut).rows
  <2>1. ReadBecomes(Settle(j, "rows", WindowOf(v, job.ask, rows), 0), cut)
    BY <1>3, <1>15
  <2>2. rows = len \/ (rows \in Nat /\ n # All /\ rows >= n /\ rows <= len)
    BY <1>6, <1>8, <1>9, <1>10, <1>15
  <2>3. WindowOf(v, job.ask, rows) = Slice(v, job.ask)
    BY <1>5, <1>8, <2>2, WindowIsSlice DEF n, len
  <2>4. v \in IF IsObject \/ Latest = j.began THEN {j.began} ELSE 1 .. Latest
    BY <1>11, LaterIs DEF MayEnd
  <2> HIDE DEF rows
  <2>5. EndsFor(j, "rows", WindowOf(v, job.ask, rows), 0, broken)
    BY <1>7, <2>3, <2>4 DEF EndsFor
  <2>6. ReadIsSound(Settle(j, "rows", WindowOf(v, job.ask, rows), 0), broken)
    BY <1>11, <2>5, SettleIs
  <2>7. QED
    BY <1>1, <1>6, <2>1, <2>6, BecomesKeeps DEF broken
<1>16. QED
  BY <1>13, <1>14, <1>15

LEMMA KindInv == ASSUME FilesAssumption, FilesInv, Kind PROVE FilesInv'
<1> DEFINE key == IF IsObject THEN job.began ELSE Latest
           l == [job EXCEPT !.pc = "learn", !.key = key]
<1>1. /\ job.pc = "kind" /\ Unchanged /\ UNCHANGED <<kinds, drops>>
      /\ job' = IF key \in DOMAIN kinds THEN Known(job, kinds[key]) ELSE l
  BY DEF Kind, VersionOf
<1>2. MayEnd(job) /\ drops \in Nat /\ about.format # "csv" /\ KindsAreSound
  BY <1>1, UnderWay DEF FilesInv
<1>3. key \in job.began .. Latest /\ (IsObject => key = job.began) /\ job.began \in 1 .. Latest
  BY <1>2, LatestIs DEF MayEnd
<1>4. ReadIsSound(job', drops)
  <2>1. CASE key \in DOMAIN kinds
    <3>1. IsLater(job, kinds[key])
      BY <1>2, <1>3, <2>1 DEF KindsAreSound, IsLater
    <3>2. job' = Known(job, kinds[key])
      BY <1>1, <2>1
    <3> HIDE DEF key
    <3>3. QED
      BY <1>1, <1>2, <3>1, <3>2, KnownIs
  <2>2. CASE key \notin DOMAIN kinds
    <3>1. job' = l
      BY <1>1, <2>2
    <3>2. /\ l.pc = "learn" /\ l.key = key /\ l.ask = job.ask /\ l.began = job.began /\ l.opened = job.opened
          /\ l.tripped = job.tripped /\ DOMAIN l = DOMAIN job
      <4> HIDE DEF key
      <4>1. QED
        BY <1>2 DEF MayEnd, NoRead
    <3> HIDE DEF l, key
    <3>3. MayEnd(l) /\ IsLater(l, key)
      BY <1>2, <1>3, <3>2 DEF MayEnd, IsLater
    <3>4. ReadIsSound(l, drops)
      BY <1>2, <3>2, <3>3 DEF ReadIsSound
    <3>5. QED
      BY <3>1, <3>4
  <2>3. QED
    BY <2>1, <2>2
<1>5. QED
  BY <1>1, <1>2, <1>4, FileKeeps DEF KindsAreSound

LEMMA LookInv == ASSUME FilesAssumption, FilesInv, Look PROVE FilesInv'
<1>1. /\ job.pc = "look" /\ Unchanged /\ UNCHANGED <<kinds, drops>>
      /\ job' = [job EXCEPT !.pc = "kind", !.ask.op = "count", !.began = IF IsObject THEN Latest ELSE @]
  BY DEF Look
<1>2. MayEnd(job) /\ drops \in Nat /\ about.format # "csv"
  BY <1>1, UnderWay
<1>3. /\ job'.pc = "kind" /\ job'.began = (IF IsObject THEN Latest ELSE job.began)
      /\ job'.opened = job.opened /\ job'.tripped = job.tripped /\ DOMAIN job' = DOMAIN job
      /\ job'.ask = [job.ask EXCEPT !.op = "count"]
  BY <1>1, <1>2 DEF MayEnd, NoRead
<1>4. job'.ask \in FileReqs
  BY <1>2, <1>3 DEF MayEnd, FileReqs
<1>5. job'.began \in 1 .. Latest
  BY <1>2, <1>3, LatestIs DEF MayEnd
<1>6. MayEnd(job')
  BY <1>2, <1>3, <1>4, <1>5 DEF MayEnd
<1>7. ReadIsSound(job', drops')
  BY <1>1, <1>2, <1>3, <1>6 DEF ReadIsSound
<1>8. drops' \in Nat /\ KindsAreSound
  BY <1>1, <1>2 DEF FilesInv
<1>9. QED
  BY <1>1, <1>7, <1>8, FileKeeps DEF KindsAreSound

LEMMA LearnInv == ASSUME FilesAssumption, FilesInv, Learn PROVE FilesInv'
<1>1. job.pc = "learn" /\ Unchanged
  BY DEF Learn
<1>2. MayEnd(job) /\ drops \in Nat /\ about.format # "csv" /\ KindsAreSound /\ IsLater(job, job.key)
  BY <1>1, UnderWay DEF FilesInv
<1>3. PICK cut \in Cuts(Latest) :
        IF Refused(job) \/ cut > 0
        THEN /\ Refused(job) => cut = 0
             /\ ReadBecomes(FailRead(job, IF cut > 0 THEN "io" ELSE "changed"), cut) /\ UNCHANGED kinds
        ELSE /\ ReadBecomes(Known([job EXCEPT !.pc = "kind"], Latest), 0)
             /\ kinds' = Put(job.key, Latest)
  BY DEF Learn
<1>4. cut \in Nat /\ Latest \in 1 .. Latest /\ Latest \in Nat
  BY LatestIs, CutsAre
<1>5. CASE Refused(job) \/ cut > 0
  <2> DEFINE broken == drops + (IF cut > 0 THEN 1 ELSE 0)
             why == IF cut > 0 THEN "io" ELSE "changed"
  <2>1. ReadBecomes(FailRead(job, why), cut) /\ UNCHANGED kinds
    BY <1>3, <1>5
  <2>2. \/ why = "io" /\ broken > 0
        \/ why = "changed" /\ IsObject /\ Latest # job.began
    BY <1>2, <1>4, <1>5 DEF Refused
  <2> HIDE DEF why
  <2>3. ReadIsSound(FailRead(job, why), broken)
    <3> HIDE DEF broken
    <3>1. QED
      BY <1>2, <2>2, FailReadIs
  <2>4. QED
    BY <1>1, <1>4, <2>1, <2>3, BecomesKeeps
<1>6. CASE ~(Refused(job) \/ cut > 0)
  <2> DEFINE k == [job EXCEPT !.pc = "kind"]
  <2>1. ReadBecomes(Known(k, Latest), 0) /\ kinds' = Put(job.key, Latest)
    BY <1>3, <1>6
  <2>2. IsLater(job, Latest)
    BY <1>2, <1>4, <1>6 DEF IsLater, Refused, MayEnd
  <2>3. /\ k.pc = "kind" /\ k.ask = job.ask /\ k.began = job.began /\ k.opened = job.opened
        /\ k.tripped = job.tripped /\ DOMAIN k = DOMAIN job
    BY <1>2 DEF MayEnd, NoRead
  <2> HIDE DEF k
  <2>4. MayEnd(k) /\ IsLater(k, Latest)
    BY <1>2, <2>2, <2>3 DEF MayEnd, IsLater
  <2>5. ReadIsSound(Known(k, Latest), drops + 0)
    BY <1>2, <2>3, <2>4, KnownIs
  <2>6. drops' = drops + 0 /\ job' = Known(k, Latest)
    BY <2>1 DEF ReadBecomes
  <2>7. \A i \in DOMAIN kinds' : i \in 1 .. Latest /\ kinds'[i] \in i .. Latest /\ (IsObject => kinds'[i] = i)
    <3>1. job.key \in 1 .. Latest /\ Latest \in job.key .. Latest /\ (IsObject => Latest = job.key)
      BY <1>2, <1>4, <2>2 DEF IsLater, MayEnd
    <3> SUFFICES ASSUME NEW i \in DOMAIN kinds'
                 PROVE  i \in 1 .. Latest /\ kinds'[i] \in i .. Latest /\ (IsObject => kinds'[i] = i)
      OBVIOUS
    <3>2. /\ i = job.key \/ i \in DOMAIN kinds
          /\ kinds'[i] = IF i = job.key THEN Latest ELSE kinds[i]
      BY <2>1 DEF Put
    <3>3. QED
      BY <1>2, <3>1, <3>2 DEF KindsAreSound
  <2>8. QED
    BY <1>1, <1>2, <2>5, <2>6, <2>7, FileKeeps
<1>7. QED
  BY <1>5, <1>6

LEMMA BlocksInv == ASSUME FilesAssumption, FilesInv, Blocks PROVE FilesInv'
<1>1. job.pc = "blocks" /\ Unchanged /\ UNCHANGED kinds
  BY DEF Blocks
<1>2. MayEnd(job) /\ drops \in Nat /\ about.format = "arrow" /\ IsLater(job, job.of)
  BY <1>1, UnderWay
<1> DEFINE total == BatchRows(versions[job.of].batches)
           end == IF job.ask.limit = All THEN total ELSE Through(job.ask)
           places == Overlap(versions[job.of].batches, job.ask.offset, end)
           none == places = <<>>
           rowsOf(w) == [i \in DOMAIN places |-> <<w, places[i]>>]
<1>3. PICK cut \in Cuts(Latest) \cap {0, 1} :
        CASE cut > 0 -> ReadBecomes(FailRead(job, "io"), cut)
          [] cut = 0 /\ ~none /\ Refused(job) -> ReadBecomes(FailRead(job, "changed"), 0)
          [] OTHER ->
               \/ ReadBecomes(Settle(job, "rows", rowsOf(job.of), 0), 0) /\ (none \/ job.of = Latest)
               \/ ReadBecomes(FailRead(job, "invalid"), 0) /\ ~none /\ job.of # Latest
               \/ ReadBecomes(Settle(job, "rows", rowsOf(0), 0), 0) /\ ~none /\ job.of # Latest
  BY DEF Blocks
<1> HIDE DEF total, end, places, none, rowsOf
<1>4. Latest \in Nat /\ job.began \in 1 .. Latest /\ job.of \in 1 .. Latest /\ job.ask \in FileReqs
  BY <1>2, LatestIs, LaterIs DEF MayEnd
<1>5. rowsOf(job.of) = Slice(job.of, job.ask)
  <2> DEFINE offset == job.ask.offset
  <2>1. /\ versions[job.of].batches \in Seq(Nat)
        /\ total = Len(RowsOf(job.of)) /\ total \in Nat
    BY <1>4, VersionIs DEF total
  <2>2. offset \in Nat /\ end \in Nat /\ (job.ask.limit # All => end = offset + job.ask.limit)
    BY <1>4, <2>1, ThroughIs DEF end
  <2>3. places = Places(offset, end, total)
    <3> HIDE DEF offset
    <3>1. places = Overlap(versions[job.of].batches, offset, end)
      BY DEF places, offset
    <3>2. QED
      BY <2>1, <2>2, <3>1, OverlapIs DEF total
  <2> DEFINE most == Greater(0, Least({total, end}) - offset)
  <2>4. places = [i \in 1 .. most |-> offset + i]
    BY <2>3 DEF Places
  <2>5. Slice(job.of, job.ask) = [i \in 1 .. most |-> <<job.of, offset + i>>]
    BY <2>1, <2>2 DEF Slice, WindowOf, end
  <2> HIDE DEF most, offset
  <2>6. DOMAIN places = 1 .. most /\ \A i \in 1 .. most : places[i] = offset + i
    BY <2>4
  <2>7. rowsOf(job.of) = [i \in 1 .. most |-> <<job.of, offset + i>>]
    BY <2>6 DEF rowsOf
  <2>8. QED
    BY <2>5, <2>7
<1>6. CASE cut > 0
  <2>1. ReadBecomes(FailRead(job, "io"), cut)
    BY <1>3, <1>6
  <2>2. ReadIsSound(FailRead(job, "io"), drops + (IF cut > 0 THEN 1 ELSE 0))
    <3>1. drops + (IF cut > 0 THEN 1 ELSE 0) > 0
      BY <1>2, <1>6
    <3>2. QED
      BY <1>2, <3>1, FailReadIs
  <2>3. QED
    BY <1>1, <2>1, <2>2, BecomesKeeps
<1>7. CASE cut = 0 /\ ~none /\ Refused(job)
  <2>1. ReadBecomes(FailRead(job, "changed"), 0)
    BY <1>3, <1>7
  <2>2. ReadIsSound(FailRead(job, "changed"), drops + 0)
    BY <1>2, <1>7, FailReadIs DEF Refused
  <2>3. QED
    BY <1>1, <2>1, <2>2, BecomesKeeps
<1>8. CASE cut = 0 /\ ~(~none /\ Refused(job))
  <2>1. \/ ReadBecomes(Settle(job, "rows", rowsOf(job.of), 0), 0)
        \/ ReadBecomes(FailRead(job, "invalid"), 0) /\ ~none /\ job.of # Latest
        \/ ReadBecomes(Settle(job, "rows", rowsOf(0), 0), 0) /\ ~none /\ job.of # Latest
    BY <1>3, <1>8
  <2>2. ~none /\ job.of # Latest => ~(IsObject \/ Latest = job.began)
    BY <1>2, <1>4, <1>8 DEF IsLater, Refused
  <2>3. CASE ReadBecomes(Settle(job, "rows", rowsOf(job.of), 0), 0)
    <3>1. EndsFor(job, "rows", rowsOf(job.of), 0, drops + 0)
      BY <1>2, <1>5, LaterIs DEF EndsFor, MayEnd
    <3>2. ReadIsSound(Settle(job, "rows", rowsOf(job.of), 0), drops + 0)
      BY <1>2, <3>1, SettleIs
    <3>3. QED
      BY <1>1, <2>3, <3>2, BecomesKeeps
  <2>4. CASE ReadBecomes(FailRead(job, "invalid"), 0) /\ ~none /\ job.of # Latest
    <3>1. EndsFor(job, "invalid", <<>>, 0, drops + 0)
      BY <1>2, <2>2, <2>4 DEF EndsFor
    <3>2. ReadIsSound(FailRead(job, "invalid"), drops + 0)
      BY <1>2, <3>1, SettleIs DEF FailRead
    <3>3. QED
      BY <1>1, <2>4, <3>2, BecomesKeeps
  <2>5. CASE ReadBecomes(Settle(job, "rows", rowsOf(0), 0), 0) /\ ~none /\ job.of # Latest
    <3>1. EndsFor(job, "rows", rowsOf(0), 0, drops + 0)
      BY <1>2, <2>2, <2>5 DEF EndsFor
    <3>2. ReadIsSound(Settle(job, "rows", rowsOf(0), 0), drops + 0)
      BY <1>2, <3>1, SettleIs
    <3>3. QED
      BY <1>1, <2>5, <3>2, BecomesKeeps
  <2>6. QED
    BY <2>1, <2>3, <2>4, <2>5
<1>9. QED
  BY <1>3, <1>6, <1>7, <1>8

LEMMA StreamInv == ASSUME FilesAssumption, FilesInv, Stream PROVE FilesInv'
<1> DEFINE batches == versions[Latest].batches
           ends == {RowsThrough(batches)[i] : i \in 0 .. Len(batches)}
           n == Through(job.ask)
           enough == {e \in ends : n # All /\ e >= n /\ e > 0}
           need == IF enough = {} THEN All ELSE Least(enough)
           taken(cut) == Taken(Latest, need, cut)
           len == Len(RowsOf(Latest))
<1>1. job.pc = "stream" /\ Unchanged /\ UNCHANGED kinds
  BY DEF Stream
<1>2. MayEnd(job) /\ drops \in Nat /\ about.format = "stream"
  BY <1>1, UnderWay
<1>3. PICK cut \in Cuts(Latest) :
        IF Refused(job) THEN cut = 0 /\ ReadBecomes(FailRead(job, "changed"), 0)
        ELSE /\ taken(cut).stop = "io" <=> cut > 0
             /\ ReadBecomes(IF taken(cut).stop # "none" THEN FailRead(job, taken(cut).stop)
                            ELSE Settle(job, "rows", WindowOf(Latest, job.ask, taken(cut).rows), 0), cut)
  BY DEF Stream
<1> DEFINE broken == drops + (IF cut > 0 THEN 1 ELSE 0)
<1>4. Latest \in 1 .. Latest /\ cut \in Nat
  BY LatestIs, CutsAre
<1>5. len \in Nat /\ n \in Nat \cup {All} /\ job.ask \in FileReqs
  BY <1>2, <1>4, VersionIs, ThroughIs DEF MayEnd
<1>6. ~Compressed
  BY <1>2 DEF Compressed, MayEnd, FilesAssumption, FilesInv
<1>7. need = All \/ (need \in Nat /\ n # All /\ need >= n)
  <2>1. batches \in Seq(Nat)
    BY <1>4, VersionIs
  <2>2. ends \in SUBSET Nat
    <3> HIDE DEF batches
    <3>1. RowsThrough(batches) \in [0 .. Len(batches) -> Nat]
      BY <2>1, RowsThroughIs
    <3>2. QED
      BY <3>1
  <2> HIDE DEF ends
  <2>3. enough \in SUBSET Nat /\ \A e \in enough : n # All /\ e >= n
    BY <2>2
  <2> HIDE DEF enough, n
  <2>4. enough # {} => Least(enough) \in enough
    BY <2>3, LeastNatural DEF Least
  <2>5. QED
    BY <2>3, <2>4
<1>8. /\ taken(cut).stop = "none" => taken(cut).rows = IF need = All \/ need > len THEN len ELSE need
      /\ taken(cut).stop # "none" => taken(cut).stop = "io" /\ cut > 0
  <2>1. need \in Nat \cup {All}
    BY <1>7
  <2> HIDE DEF need
  <2>2. QED
    BY <1>4, <1>6, <2>1, TakenIs
<1>9. IsLater(job, Latest) \/ Refused(job)
  BY <1>2, <1>4, LatestIs DEF IsLater, Refused, MayEnd
<1> HIDE DEF n, need, taken, len, broken
<1>10. CASE Refused(job)
  <2>1. ReadBecomes(FailRead(job, "changed"), 0)
    BY <1>3, <1>10
  <2>2. ReadIsSound(FailRead(job, "changed"), drops + 0)
    BY <1>2, <1>10, FailReadIs DEF Refused
  <2>3. QED
    BY <1>1, <2>1, <2>2, BecomesKeeps
<1>11. CASE ~Refused(job) /\ taken(cut).stop # "none"
  <2>1. ReadBecomes(FailRead(job, "io"), cut)
    BY <1>3, <1>8, <1>11
  <2>2. broken > 0
    BY <1>2, <1>8, <1>11 DEF broken
  <2>3. ReadIsSound(FailRead(job, "io"), broken)
    BY <1>2, <2>2, FailReadIs
  <2>4. QED
    BY <1>1, <1>4, <2>1, <2>3, BecomesKeeps DEF broken
<1>12. CASE ~Refused(job) /\ taken(cut).stop = "none"
  <2> DEFINE rows == taken(cut).rows
  <2>1. ReadBecomes(Settle(job, "rows", WindowOf(Latest, job.ask, rows), 0), cut)
    BY <1>3, <1>12
  <2>2. rows = len \/ (rows \in Nat /\ n # All /\ rows >= n /\ rows <= len)
    BY <1>5, <1>7, <1>8, <1>12
  <2>3. WindowOf(Latest, job.ask, rows) = Slice(Latest, job.ask)
    BY <1>4, <1>5, <2>2, WindowIsSlice DEF n, len
  <2>4. Latest \in IF IsObject \/ Latest = job.began THEN {job.began} ELSE 1 .. Latest
    BY <1>2, <1>9, <1>12, LaterIs DEF MayEnd
  <2> HIDE DEF rows
  <2>5. EndsFor(job, "rows", WindowOf(Latest, job.ask, rows), 0, broken)
    BY <2>3, <2>4 DEF EndsFor
  <2>6. ReadIsSound(Settle(job, "rows", WindowOf(Latest, job.ask, rows), 0), broken)
    BY <1>2, <2>5, SettleIs
  <2>7. QED
    BY <1>1, <1>4, <2>1, <2>6, BecomesKeeps DEF broken
<1>13. QED
  BY <1>10, <1>11, <1>12

LEMMA FilesNextInv == ASSUME FilesAssumption, FilesInv, [FilesNext]_fileVars PROVE FilesInv'
<1>1. CASE UNCHANGED fileVars
  <2>1. drops \in Nat /\ KindsAreSound /\ ReadIsSound(job, drops)
    BY DEF FilesInv
  <2>2. Unchanged /\ kinds' = kinds /\ job' = job /\ drops' = drops
    BY <1>1 DEF fileVars, Unchanged
  <2>3. QED
    BY <2>1, <2>2, FileKeeps DEF KindsAreSound
<1>2. QED
  BY <1>1, StartInv, ReplaceInv, CancelledInv, InferInv, DecodeInv, KindInv, LookInv, LearnInv, BlocksInv, StreamInv
  DEF FilesNext

\* The version a read began with is no later than the one it was looked up at, and its
\* schema is of one that the file had since.
Looked(j, latest) ==
  /\ j.first \in Nat /\ j.began \in Nat /\ j.first <= j.began /\ j.began <= latest
  /\ j.of = 0 \/ j.of \in j.first .. latest

LEMMA LookedInit == ASSUME FilesInit PROVE Looked(job, Latest)
BY DEF FilesInit, Looked, NoRead, Latest

\* A step of a read keeps the two versions, and takes a schema of one that it may be of.
LEMMA LookedIs ==
  ASSUME Looked(job, Latest), Latest \in Nat, NEW j, j.first = job.first, j.began = job.began,
         \/ j.of = job.of
         \/ j.of \in job.began .. Latest
  PROVE  Looked(j, Latest)
BY DEF Looked

LEMMA LookedSettles ==
  ASSUME NEW j, DOMAIN j = DOMAIN NoRead, NEW result, NEW out, NEW count
  PROVE  /\ Settle(j, result, out, count).first = j.first
         /\ Settle(j, result, out, count).began = j.began
         /\ Settle(j, result, out, count).of = j.of
BY DEF Settle, NoRead

LEMMA LookedFails ==
  ASSUME NEW j, DOMAIN j = DOMAIN NoRead, NEW stop
  PROVE  /\ FailRead(j, stop).first = j.first /\ FailRead(j, stop).began = j.began
         /\ FailRead(j, stop).of = j.of
         /\ Stopped(j, stop).first = j.first /\ Stopped(j, stop).began = j.began
         /\ Stopped(j, stop).of = j.of
<1> DEFINE t == [j EXCEPT !.tripped = stop = "over"]
<1>1. DOMAIN t = DOMAIN NoRead /\ t.first = j.first /\ t.began = j.began /\ t.of = j.of
  BY DEF NoRead
<1> HIDE DEF t
<1>2. Stopped(j, stop) = FailRead(t, IF Compressed THEN DecodeError(stop) ELSE stop)
  BY DEF Stopped, t
<1>3. QED
  BY <1>1, <1>2, LookedSettles DEF FailRead

\* The layout is that of a version that the read may be of.
LEMMA LookedKnown ==
  ASSUME NEW j, DOMAIN j = DOMAIN NoRead, NEW w
  PROVE  /\ Known(j, w).first = j.first /\ Known(j, w).began = j.began
         /\ Known(j, w).of \in {j.of, w}
<1>1. CASE j.ask.op = "schema"
  BY <1>1 DEF Known, NoRead
<1>2. CASE j.ask.op = "count" /\ about.format = "arrow"
  BY <1>2, LookedSettles DEF Known
<1>3. CASE j.ask.op = "count" /\ about.format = "stream"
  BY <1>3, LookedSettles DEF Known
<1>4. CASE j.ask.op # "schema" /\ ~(j.ask.op = "count" /\ about.format \in {"arrow", "stream"})
  BY <1>4 DEF Known, NoRead
<1>5. QED
  BY <1>1, <1>2, <1>3, <1>4

LEMMA LookedStep ==
  ASSUME FilesAssumption, FilesInv, Looked(job, Latest), FilesNext
  PROVE  Looked(job, Latest)'
<1>1. Latest \in Nat /\ Latest \in 1 .. Latest
  BY LatestIs
<1>2. CASE \E req \in ReadAsks : Start(req)
  <2>1. PICK req \in ReadAsks : Start(req)
    BY <1>2
  <2> DEFINE begun == IF about.format = "csv" THEN "infer" ELSE "kind"
             j == [NoRead EXCEPT !.ask = req, !.first = Latest, !.began = Latest, !.pc = begun]
  <2>2. job' = j \/ \E result : job' = Settle(j, result, <<>>, 0)
    BY <2>1 DEF Start, FailRead
  <2>3. Latest' = Latest
    BY <2>1 DEF Start, Unchanged, Latest
  <2>4. j.first = Latest /\ j.began = Latest /\ j.of = 0 /\ DOMAIN j = DOMAIN NoRead
    <3> HIDE DEF begun
    <3>1. QED
      BY DEF NoRead
  <2> HIDE DEF j
  <2>5. job'.first = Latest /\ job'.began = Latest /\ job'.of = 0
    BY <2>2, <2>4, LookedSettles
  <2>6. QED
    BY <1>1, <2>3, <2>5 DEF Looked
<1>3. CASE \E content \in Contents : Replace(content)
  <2>1. job' = job /\ Latest' = Latest + 1
    BY <1>3 DEF Replace, Latest, FilesInv
  <2>2. QED
    BY <1>1, <2>1 DEF Looked
<1>4. CASE Look
  <2>1. /\ Latest' = Latest /\ MayEnd(job)
        /\ job' = [job EXCEPT !.pc = "kind", !.ask.op = "count", !.began = IF IsObject THEN Latest ELSE @]
    BY <1>4, UnderWay DEF Look, Unchanged, Latest
  <2>2. /\ job'.first = job.first /\ job'.of = job.of
        /\ job'.began = Latest \/ job'.began = job.began
    BY <2>1 DEF MayEnd, NoRead
  <2>3. QED
    BY <1>1, <2>1, <2>2 DEF Looked
<1>5. CASE Cancelled \/ Infer \/ Decode \/ Kind \/ Learn \/ Blocks \/ Stream
  <2>1. Latest' = Latest /\ MayEnd(job) /\ DOMAIN job = DOMAIN NoRead
    BY <1>5, UnderWay DEF Cancelled, Infer, Decode, Kind, Learn, Blocks, Stream, Unchanged, Latest, MayEnd
  <2>2. Latest \in job.began .. Latest
    BY <1>1, <2>1 DEF MayEnd
  <2>3. /\ job'.first = job.first /\ job'.began = job.began
        /\ job'.of = job.of \/ job'.of \in job.began .. Latest
    <3>1. CASE Cancelled
      BY <2>1, <3>1, LookedFails DEF Cancelled
    <3>2. CASE Infer
      <4>1. PICK rows, stop :
              LET j == [job EXCEPT !.opened = @ + 1, !.of = Latest, !.schema = Widest(Latest, rows), !.pc = "decode"]
              IN \/ job' = FailRead(job, "changed") \/ job' = Stopped(j, stop)
                 \/ job' = Settle(j, "schema", <<>>, 0) \/ job' = j
        BY <3>2 DEF Infer, ReadBecomes
      <4> DEFINE j == [job EXCEPT !.opened = @ + 1, !.of = Latest, !.schema = Widest(Latest, rows), !.pc = "decode"]
      <4>2. j.first = job.first /\ j.began = job.began /\ j.of = Latest /\ DOMAIN j = DOMAIN NoRead
        BY <2>1 DEF NoRead
      <4>3. \/ job' = FailRead(job, "changed") \/ job' = Stopped(j, stop)
            \/ job' = Settle(j, "schema", <<>>, 0) \/ job' = j
        BY <4>1
      <4> HIDE DEF j
      <4>4. QED
        BY <2>1, <2>2, <4>2, <4>3, LookedFails, LookedSettles
    <3>3. CASE Decode
      <4> DEFINE j == [job EXCEPT !.opened = @ + (IF Reopens THEN 1 ELSE 0)]
      <4>1. j.first = job.first /\ j.began = job.began /\ j.of = job.of /\ DOMAIN j = DOMAIN NoRead
        BY <2>1 DEF NoRead
      <4>2. \E stop, out : \/ job' = FailRead(j, "unfit") \/ job' = Stopped(j, stop)
                           \/ job' = Settle(j, "rows", out, 0)
        BY <3>3 DEF Decode, ReadBecomes
      <4> HIDE DEF j
      <4>3. QED
        BY <4>1, <4>2, LookedFails, LookedSettles
    <3>4. CASE Kind
      <4> DEFINE key == VersionOf(IF IsObject THEN job.began ELSE Latest)
      <4>1. \/ key \in DOMAIN kinds /\ job' = Known(job, kinds[key])
            \/ job' = [job EXCEPT !.pc = "learn", !.key = key]
        BY <3>4 DEF Kind
      <4>2. key \in job.began .. Latest
        BY <1>1, <2>1, <2>2 DEF MayEnd, VersionOf
      <4>3. key \in DOMAIN kinds => kinds[key] \in job.began .. Latest
        BY <1>1, <2>1, <4>2 DEF FilesInv, KindsAreSound, MayEnd
      <4> HIDE DEF key
      <4>4. CASE key \in DOMAIN kinds /\ job' = Known(job, kinds[key])
        BY <2>1, <4>3, <4>4, LookedKnown
      <4>5. CASE job' = [job EXCEPT !.pc = "learn", !.key = key]
        BY <2>1, <4>5 DEF NoRead
      <4>6. QED
        BY <4>1, <4>4, <4>5
    <3>5. CASE Learn
      <4> DEFINE k == [job EXCEPT !.pc = "kind"]
      <4>1. k.first = job.first /\ k.began = job.began /\ k.of = job.of /\ DOMAIN k = DOMAIN NoRead
        BY <2>1 DEF NoRead
      <4>2. (\E stop : job' = FailRead(job, stop)) \/ job' = Known(k, Latest)
        BY <3>5 DEF Learn, ReadBecomes
      <4> HIDE DEF k
      <4>3. QED
        BY <2>1, <2>2, <4>1, <4>2, LookedFails, LookedKnown
    <3>6. CASE Blocks
      <4>1. \E stop, out : job' = FailRead(job, stop) \/ job' = Settle(job, "rows", out, 0)
        BY <3>6 DEF Blocks, ReadBecomes
      <4>2. QED
        BY <2>1, <4>1, LookedFails, LookedSettles
    <3>7. CASE Stream
      <4>1. \E stop, out : job' = FailRead(job, stop) \/ job' = Settle(job, "rows", out, 0)
        BY <3>7 DEF Stream, ReadBecomes
      <4>2. QED
        BY <2>1, <4>1, LookedFails, LookedSettles
    <3>8. QED
      BY <1>5, <3>1, <3>2, <3>3, <3>4, <3>5, <3>6, <3>7
  <2>4. QED
    BY <1>1, <2>1, <2>3, LookedIs
<1>6. QED
  BY <1>2, <1>3, <1>4, <1>5 DEF FilesNext

\* What a read of a file says is so, of any files, versions and requests: its rows are the
\* window of the version it was looked up at, a count is that version's, and a failure has
\* the cause it tells.  If a local file was replaced meanwhile they are so of one of its
\* versions, but for the rows of an Arrow file.  A count said beside a schema is of the
\* same version if the file was not replaced since the read began.
THEOREM FileReadsAreTrueAlways == FilesAssumption /\ FilesSpec => []FileReadsAreTrue
<1>1. FilesInv /\ Looked(job, Latest) => FileReadsAreTrue
  <2> SUFFICES ASSUME FilesInv, Looked(job, Latest), job.pc = "done"
               PROVE  /\ Still \/ about.format # "arrow" => RowsAreTheWindow
                      /\ CountIsOfTheRows /\ CountIsOfTheSchema /\ FailsForItsCause /\ OpensOnce
    BY DEF FileReadsAreTrue
  <2>1. EndsFor(job, job.result, job.out, job.count, drops) /\ (IsObject \/ Compressed => job.opened <= 1)
    BY DEF FilesInv, ReadIsSound, NoRead
  <2>2. CountIsOfTheSchema
    <3> SUFFICES ASSUME job.result = "count", job.of # 0, Latest = job.first
                 PROVE  job.count = Len(RowsOf(job.of))
      BY DEF CountIsOfTheSchema
    <3>1. Latest \in Nat
      BY LatestIs
    <3>2. job.began = Latest /\ job.of = Latest
      BY <3>1 DEF Looked
    <3>3. QED
      BY <2>1, <3>2 DEF EndsFor
  <2>3. QED
    BY <2>1, <2>2 DEF EndsFor, RowsAreTheWindow, CountIsOfTheRows, FailsForItsCause, OpensOnce, OneOf, Still
<1>2. ASSUME FilesAssumption PROVE FilesSpec => []FileReadsAreTrue
  <2>1. FilesInit => FilesInv /\ Looked(job, Latest)
    BY <1>2, FilesInitInv, LookedInit
  <2>2. FilesInv /\ Looked(job, Latest) /\ [FilesNext]_fileVars => FilesInv' /\ Looked(job, Latest)'
    <3>1. ASSUME Looked(job, Latest), UNCHANGED fileVars PROVE Looked(job, Latest)'
      BY <3>1 DEF Looked, Latest, fileVars
    <3>2. QED
      BY <1>2, <3>1, FilesNextInv, LookedStep
  <2>3. QED
    BY <1>1, <2>1, <2>2, PTL DEF FilesSpec
<1>3. QED
  BY <1>2
=============================================================================
