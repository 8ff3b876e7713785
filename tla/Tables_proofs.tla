----------------------------- MODULE Tables_proofs -----------------------------
(***************************************************************************)
(* Proofs about the tables that are directories of files: the plans of     *)
(* DeltaLog, for any number of threads, tables, files and commits and any  *)
(* room of the cache; the columns of IcebergSchema, for any names, schemas *)
(* and files; and the snapshot that a call of LocalScan reads, for any     *)
(* tables, files and asks.                                                 *)
(***************************************************************************)
EXTENDS DeltaLog, IcebergSchema, LocalScan, FiniteSetTheorems, SequenceTheorems, TLAPS

(***************************************************************************)
(* Delta plans.  The heart is TableStep: what a table holds after a        *)
(* commit, which is stated by the last action on each file, is what the    *)
(* reader's rule makes of what the table held before it.  A replay that    *)
(* has begun at any commit therefore agrees with the table on everything   *)
(* it has seen (Agrees), and is the table when it has begun at the first   *)
(* one.  The inductive invariant says so of each thread that replays, and  *)
(* of a plan that is kept or about to be returned that it is the table at  *)
(* a moment no earlier than its fingerprint.                               *)
(***************************************************************************)
\* What a table holds after its n-th commit, in the form of a reader's notes.
SchemaAfter(t, n) ==
  IF LastSchema(t, n) = {} THEN "none" ELSE IF Mapped(t, n) THEN "mapped" ELSE "plain"
After(t, n) ==
  [schema |-> SchemaAfter(t, n), active |-> Live(t, n), vectors |-> WithVector(t, n)]

\* Notes that have begun late: what they have is right, and files may be missing.
Agrees(seen, now) ==
  /\ seen.active \subseteq now.active
  /\ seen.vectors = seen.active \cap now.vectors
  /\ seen.schema \in {"none", now.schema}

\* A plan is the table after one of its commits.
AsItWas(t, plan) ==
  /\ plan.upTo \in 1..Len(log[t])
  /\ plan.files \subseteq Live(t, plan.upTo)
  /\ first[t] = 1 => plan.files = Live(t, plan.upTo)
  /\ plan.files \cap WithVector(t, plan.upTo) = {}
  /\ ~Mapped(t, plan.upTo)

\* The last commit a replay has read: the ones to do are those behind it.
ReadUpTo(q) == q.plan.upTo - Len(q.todo)
ReplayedInOrder(q) ==
  /\ q.plan.upTo \in q.since..Len(log[q.table])
  /\ Len(q.todo) <= q.plan.upTo
  /\ \A i \in 1..Len(q.todo) : q.todo[i] = ReadUpTo(q) + i
NotedSoFar(t, n, seen) ==
  /\ Agrees(seen, After(t, n))
  /\ first[t] = 1 => /\ seen.active = Live(t, n)
                     /\ n > 0 => seen.schema # "none"

Cause(t, n) == first[t] > 1 \/ Mapped(t, n) \/ WithVector(t, n) # {}

Ats == {"listed", "missed", "replay", "planned", "refused", "failed"}
Asking ==
  [at: Ats, table: DeltaTables, since: Nat, key: Fingerprint, todo: Seq(Nat), seen: Seen,
   plan: DeltaPlan]
Entries == [key: Fingerprint, plan: DeltaPlan]

LogIsSound ==
  /\ log \in [DeltaTables -> Seq(Created \cup Commits)]
  /\ first \in [DeltaTables -> Nat]
  /\ \A t \in DeltaTables : first[t] \in 1..Len(log[t]) /\ log[t][1] \in Created

CacheIsSound ==
  /\ IsFiniteSet(DOMAIN cache) /\ Cardinality(DOMAIN cache) <= CacheMax
  /\ DOMAIN cache \subseteq DeltaTables
  /\ \A t \in DOMAIN cache :
       /\ cache[t] \in Entries
       /\ AsItWas(t, cache[t].plan) /\ cache[t].key.highest <= cache[t].plan.upTo

AskedFrom(q) == q.at \in {"listed", "missed", "replay"} => q.key.highest = q.since
CallIsSound(q) ==
  /\ q \in Asking /\ q.since \in 1..Len(log[q.table])
  /\ AskedFrom(q)
  /\ q.at \in {"listed", "missed"} => q.seen = Nothing
  /\ q.at = "replay" => ReplayedInOrder(q) /\ NotedSoFar(q.table, ReadUpTo(q), q.seen)
  /\ q.at = "planned" => AsItWas(q.table, q.plan) /\ q.plan.upTo >= q.since
  /\ q.at = "refused" => \E n \in q.since..Len(log[q.table]) : Cause(q.table, n)

\* The inductive invariant.
DeltaInv ==
  /\ LogIsSound /\ CacheIsSound
  /\ DOMAIN planCall = Calls
  /\ planCall = [c \in Calls |-> planCall[c]]
  /\ \A c \in Calls : planCall[c] # Idle => CallIsSound(planCall[c])

-----------------------------------------------------------------------------
(***************************************************************************)
(* Actions and commits.                                                    *)
(***************************************************************************)

LEMMA ActionsAre ==
  /\ \A f \in Files : RemoveFile(f) \in Action /\ \A v \in BOOLEAN : Add(f, v) \in Action
  /\ \A m \in BOOLEAN : [kind |-> "metaData", mapped |-> m] \in Action \cap SchemaActions
  /\ \A f \in Files : RemoveFile(f) \notin SchemaActions /\ \A v \in BOOLEAN : Add(f, v) \notin SchemaActions
BY DEF Action, SchemaActions, RemoveFile, Add

LEMMA OneOrTwo ==
  ASSUME NEW S, NEW x \in S, NEW y \in S
  PROVE  /\ <<x>> \in Seq(S) /\ Len(<<x>>) = 1 /\ <<x>>[1] = x
         /\ <<x, y>> \in Seq(S) /\ Len(<<x, y>>) = 2 /\ <<x, y>>[1] = x /\ <<x, y>>[2] = y
OBVIOUS

LEMMA SchemaComesFirst ==
  ASSUME NEW a \in Created
  PROVE  /\ Len(a) = 2 /\ a[1] \in SchemaActions /\ a[1] \in Action
         /\ a[2] \in Action \ SchemaActions
         /\ a \in Seq(Action)
<1>1. PICK f \in Files : a = <<[kind |-> "metaData", mapped |-> FALSE], Add(f, FALSE)>>
  BY DEF Created
<1> DEFINE x == [kind |-> "metaData", mapped |-> FALSE]
           y == Add(f, FALSE)
<1>2. x \in Action /\ x \in SchemaActions /\ y \in Action /\ y \notin SchemaActions
  BY ActionsAre
<1>3. a = <<x, y>>
  BY <1>1
<1> HIDE DEF x, y
<1> QED BY <1>2, <1>3, OneOrTwo

LEMMA CommitShapes ==
  ASSUME NEW a \in Created \cup Commits
  PROVE  /\ a \in Seq(Action) /\ Len(a) \in {1, 2}
         /\ a[1] \in Action /\ (Len(a) = 2 => a[2] \in Action)
<1>1. CASE a \in Created
  BY <1>1, SchemaComesFirst
<1>2. ASSUME NEW x \in Action, a = <<x>>
      PROVE  a \in Seq(Action) /\ Len(a) = 1 /\ a[1] \in Action
  BY <1>2, OneOrTwo
<1>3. ASSUME NEW x \in Action, NEW y \in Action, a = <<x, y>>
      PROVE  a \in Seq(Action) /\ Len(a) = 2 /\ a[1] \in Action /\ a[2] \in Action
  BY <1>3, OneOrTwo
<1>4. CASE a \in Commits
  <2>1. \/ \E x \in Action : a = <<x>>
        \/ \E x, y \in Action : a = <<x, y>>
    BY <1>4, ActionsAre, Zenon DEF Commits
  <2> QED BY <1>2, <1>3, <2>1, Zenon
<1> QED BY <1>1, <1>4

\* What one action does to the notes, for the schema and for each file.
LEMMA ApplyOne ==
  ASSUME NEW s \in Seen, NEW a \in Action
  PROVE  /\ Apply(s, a) \in Seen
         /\ Apply(s, a).schema =
              IF a \in SchemaActions THEN IF a.mapped THEN "mapped" ELSE "plain" ELSE s.schema
         /\ \A f \in Files :
              /\ f \in Apply(s, a).active <=>
                   IF a \in ActionsOn(f) THEN a.kind = "add" ELSE f \in s.active
              /\ f \in Apply(s, a).vectors <=>
                   IF a \in ActionsOn(f) THEN a.kind = "add" /\ a.vector ELSE f \in s.vectors
<1>1. CASE a \in [kind: {"metaData"}, mapped: BOOLEAN]
  <2>1. Apply(s, a) = [s EXCEPT !.schema = IF a.mapped THEN "mapped" ELSE "plain"]
    BY <1>1 DEF Apply
  <2>2. \A f \in Files : a \notin ActionsOn(f)
    BY <1>1 DEF ActionsOn, RemoveFile, Add
  <2> QED BY <1>1, <2>1, <2>2 DEF Seen, SchemaActions
<1>2. CASE a \in [kind: {"add"}, file: Files, vector: BOOLEAN]
  <2>1. Apply(s, a) =
          [s EXCEPT !.active = @ \cup {a.file},
                    !.vectors = IF a.vector THEN @ \cup {a.file} ELSE @ \ {a.file}]
    BY <1>2 DEF Apply
  <2>2. \A f \in Files : a \in ActionsOn(f) <=> f = a.file
    BY <1>2 DEF ActionsOn, RemoveFile, Add
  <2>3. a \notin SchemaActions
    BY <1>2 DEF SchemaActions
  <2>4. a.file \in Files /\ a.vector \in BOOLEAN /\ a.kind = "add"
    BY <1>2
  <2>5. s.active \in SUBSET Files /\ s.vectors \in SUBSET Files
    BY DEF Seen
  <2>6. /\ Apply(s, a).schema = s.schema
        /\ Apply(s, a).active = s.active \cup {a.file}
        /\ Apply(s, a).vectors =
             IF a.vector THEN s.vectors \cup {a.file} ELSE s.vectors \ {a.file}
    BY <2>1 DEF Seen
  <2>7. Apply(s, a) \in Seen
    <3> DEFINE v == IF a.vector THEN s.vectors \cup {a.file} ELSE s.vectors \ {a.file}
    <3>1. v \in SUBSET Files /\ s.active \cup {a.file} \in SUBSET Files
      BY <2>4, <2>5
    <3>2. Apply(s, a) = [s EXCEPT !.active = s.active \cup {a.file}, !.vectors = v]
      BY <2>1
    <3> HIDE DEF v
    <3> QED BY <3>1, <3>2 DEF Seen
  <2>8. \A f \in Files :
          /\ f \in Apply(s, a).active <=> IF f = a.file THEN TRUE ELSE f \in s.active
          /\ f \in Apply(s, a).vectors <=> IF f = a.file THEN a.vector ELSE f \in s.vectors
    BY <2>4, <2>6
  <2> QED BY <2>2, <2>3, <2>4, <2>6, <2>7, <2>8
<1>3. CASE a \in [kind: {"remove"}, file: Files]
  <2>1. Apply(s, a) = [s EXCEPT !.active = @ \ {a.file}, !.vectors = @ \ {a.file}]
    BY <1>3 DEF Apply
  <2>2. \A f \in Files : a \in ActionsOn(f) <=> f = a.file
    BY <1>3 DEF ActionsOn, RemoveFile, Add
  <2>3. a \notin SchemaActions
    BY <1>3 DEF SchemaActions
  <2> QED BY <1>3, <2>1, <2>2, <2>3, ZenonT(20) DEF Seen
<1> QED BY <1>1, <1>2, <1>3 DEF Action

LEMMA ApplyKeepsAgreement ==
  ASSUME NEW s \in Seen, NEW w \in Seen, NEW a \in Action, Agrees(s, w)
  PROVE  /\ Agrees(Apply(s, a), Apply(w, a))
         /\ s.active = w.active => Apply(s, a).active = Apply(w, a).active
         /\ s.schema # "none" => Apply(s, a).schema # "none"
         /\ a \in SchemaActions => Apply(s, a).schema # "none"
<1>1. /\ Apply(s, a) \in Seen /\ Apply(w, a) \in Seen
      /\ s.active \subseteq Files /\ w.active \subseteq Files
      /\ s.vectors \subseteq Files /\ w.vectors \subseteq Files
      /\ Apply(s, a).active \subseteq Files /\ Apply(w, a).active \subseteq Files
      /\ Apply(s, a).vectors \subseteq Files /\ Apply(w, a).vectors \subseteq Files
  BY ApplyOne DEF Seen
<1>2. Apply(s, a).schema \in {"none", Apply(w, a).schema}
  BY ApplyOne DEF Agrees
<1>3. \A f \in Files : f \in Apply(s, a).active => f \in Apply(w, a).active
  BY ApplyOne DEF Agrees
<1>4. \A f \in Files : f \in Apply(s, a).vectors <=> f \in Apply(s, a).active /\ f \in Apply(w, a).vectors
  BY ApplyOne DEF Agrees
<1>5. s.active = w.active => \A f \in Files : f \in Apply(s, a).active <=> f \in Apply(w, a).active
  BY ApplyOne
<1>6. /\ s.schema # "none" => Apply(s, a).schema # "none"
      /\ a \in SchemaActions => Apply(s, a).schema # "none"
  BY ApplyOne
<1> QED BY <1>1, <1>2, <1>3, <1>4, <1>5, <1>6 DEF Agrees

\* The same of a whole commit.
LEMMA ApplyAllKeepsAgreement ==
  ASSUME NEW s \in Seen, NEW w \in Seen, NEW a \in Created \cup Commits, Agrees(s, w)
  PROVE  /\ ApplyAll(s, a) \in Seen
         /\ Agrees(ApplyAll(s, a), ApplyAll(w, a))
         /\ s.active = w.active => ApplyAll(s, a).active = ApplyAll(w, a).active
         /\ s.schema # "none" \/ a \in Created => ApplyAll(s, a).schema # "none"
<1>1. Len(a) \in {1, 2} /\ a[1] \in Action /\ (Len(a) = 2 => a[2] \in Action)
  BY CommitShapes
<1>2. a \in Created => Len(a) = 2 /\ a[1] \in SchemaActions
  BY SchemaComesFirst
<1> DEFINE s1 == Apply(s, a[1])
           w1 == Apply(w, a[1])
<1>3. /\ s1 \in Seen /\ w1 \in Seen /\ Agrees(s1, w1)
      /\ s.active = w.active => s1.active = w1.active
      /\ s.schema # "none" \/ a \in Created => s1.schema # "none"
  BY <1>1, <1>2, ApplyOne, ApplyKeepsAgreement
<1>4. CASE Len(a) = 1
  BY <1>2, <1>3, <1>4 DEF ApplyAll
<1>5. CASE Len(a) = 2
  <2>1. ApplyAll(s, a) = Apply(s1, a[2]) /\ ApplyAll(w, a) = Apply(w1, a[2])
    BY <1>5 DEF ApplyAll
  <2> HIDE DEF s1, w1
  <2>2. /\ Apply(s1, a[2]) \in Seen /\ Agrees(Apply(s1, a[2]), Apply(w1, a[2]))
        /\ s1.active = w1.active => Apply(s1, a[2]).active = Apply(w1, a[2]).active
        /\ s1.schema # "none" => Apply(s1, a[2]).schema # "none"
    BY <1>1, <1>3, <1>5, ApplyOne, ApplyKeepsAgreement
  <2> QED BY <1>3, <2>1, <2>2
<1> QED BY <1>1, <1>4, <1>5
-----------------------------------------------------------------------------
(***************************************************************************)
(* The last action of a kind, commit by commit.                            *)
(***************************************************************************)

\* The places of one more commit are those of its actions.
LEMMA PlacesAfter ==
  ASSUME NEW t, NEW n \in Nat, Len(log[t][n + 1]) \in {1, 2}
  PROVE  /\ \A p \in Places(t, n) : p = <<p[1], p[2]>> /\ p[1] \in 1..n /\ p[2] \in 1..2
         /\ Len(log[t][n + 1]) = 1 => Places(t, n + 1) = Places(t, n) \cup {<<n + 1, 1>>}
         /\ Len(log[t][n + 1]) = 2 =>
              Places(t, n + 1) = Places(t, n) \cup {<<n + 1, 1>>, <<n + 1, 2>>}
<1>1. \A p \in Places(t, n) : p = <<p[1], p[2]>> /\ p[1] \in 1..n /\ p[2] \in 1..2
  BY DEF Places
<1>2. \A i, j : <<i, j>> \in Places(t, n + 1) <=>
                <<i, j>> \in Places(t, n)
                  \/ (i = n + 1 /\ j \in 1..2 /\ j <= Len(log[t][n + 1]))
  BY DEF Places
<1>3. \A p \in Places(t, n + 1) : p = <<p[1], p[2]>>
  BY DEF Places
<1>4. ASSUME Len(log[t][n + 1]) = 1
      PROVE  Places(t, n + 1) = Places(t, n) \cup {<<n + 1, 1>>}
  <2>1. \A p \in Places(t, n + 1) : p \in Places(t, n) \cup {<<n + 1, 1>>}
    BY <1>2, <1>3, <1>4
  <2>2. \A p \in Places(t, n) : p \in Places(t, n + 1)
    BY <1>1, <1>2
  <2>3. <<n + 1, 1>> \in Places(t, n + 1)
    BY <1>2, <1>4
  <2> QED BY <2>1, <2>2, <2>3
<1>5. ASSUME Len(log[t][n + 1]) = 2
      PROVE  Places(t, n + 1) = Places(t, n) \cup {<<n + 1, 1>>, <<n + 1, 2>>}
  <2>1. \A p \in Places(t, n + 1) : p \in Places(t, n) \cup {<<n + 1, 1>>, <<n + 1, 2>>}
    BY <1>2, <1>3, <1>5
  <2>2. \A p \in Places(t, n) : p \in Places(t, n + 1)
    BY <1>1, <1>2
  <2>3. <<n + 1, 1>> \in Places(t, n + 1) /\ <<n + 1, 2>> \in Places(t, n + 1)
    BY <1>2, <1>5
  <2> QED BY <2>1, <2>2, <2>3
<1> QED BY <1>1, <1>4, <1>5

LEMMA LastAfter ==
  ASSUME NEW t, NEW n \in Nat, NEW about, Len(log[t][n + 1]) \in {1, 2}
  PROVE  /\ Len(log[t][n + 1]) = 2 /\ log[t][n + 1][2] \in about =>
              LastAmong(t, n + 1, about) = {<<n + 1, 2>>}
         /\ ~(Len(log[t][n + 1]) = 2 /\ log[t][n + 1][2] \in about) /\ log[t][n + 1][1] \in about =>
              LastAmong(t, n + 1, about) = {<<n + 1, 1>>}
         /\ ~(Len(log[t][n + 1]) = 2 /\ log[t][n + 1][2] \in about) /\ log[t][n + 1][1] \notin about =>
              LastAmong(t, n + 1, about) = LastAmong(t, n, about)
<1> DEFINE a == log[t][n + 1]
           P == Places(t, n)
           one == <<n + 1, 1>>
           two == <<n + 1, 2>>
<1>1. \A p \in P : Earlier(p, one) /\ Earlier(p, two) /\ ~Earlier(one, p) /\ ~Earlier(two, p)
  BY PlacesAfter DEF Earlier
<1>2. Earlier(one, two) /\ ~Earlier(two, one) /\ ~Earlier(one, one) /\ ~Earlier(two, two)
  BY DEF Earlier
<1>3. ActionAt(t, one) = a[1] /\ ActionAt(t, two) = a[2]
  BY DEF ActionAt
<1>4. one \notin P /\ two \notin P /\ one # two
  BY PlacesAfter
<1>5. /\ Len(a) = 1 => Places(t, n + 1) = P \cup {one}
      /\ Len(a) = 2 => Places(t, n + 1) = P \cup {one, two}
  BY PlacesAfter
<1>6. Len(a) \in {1, 2}
  OBVIOUS
<1> HIDE DEF a, P, one, two
<1>7. LastAmong(t, n + 1, about) =
        {p \in Places(t, n + 1) :
           /\ ActionAt(t, p) \in about
           /\ \A q \in Places(t, n + 1) : Earlier(p, q) => ActionAt(t, q) \notin about}
  BY DEF LastAmong
<1>8. LastAmong(t, n, about) =
        {p \in P :
           /\ ActionAt(t, p) \in about
           /\ \A q \in P : Earlier(p, q) => ActionAt(t, q) \notin about}
  BY DEF LastAmong, P
<1> DEFINE L == LastAmong(t, n + 1, about)
<1>9. ASSUME Len(a) = 1
      PROVE  L = IF a[1] \in about THEN {one} ELSE LastAmong(t, n, about)
  <2>1. \A p : p \in L <=> /\ p \in P \/ p = one
                           /\ ActionAt(t, p) \in about
                           /\ \A q \in P : Earlier(p, q) => ActionAt(t, q) \notin about
                           /\ Earlier(p, one) => ActionAt(t, one) \notin about
    BY <1>5, <1>7, <1>9
  <2>2. one \in L <=> a[1] \in about
    BY <1>1, <1>2, <1>3, <2>1
  <2>3. \A p \in P : p \in L <=> p \in LastAmong(t, n, about) /\ a[1] \notin about
    BY <1>1, <1>3, <1>8, <2>1
  <2>4. \A p \in L : p \in P \/ p = one
    BY <2>1
  <2>5. LastAmong(t, n, about) \subseteq P
    BY <1>8
  <2> HIDE DEF L
  <2> QED BY <2>2, <2>3, <2>4, <2>5
<1>10. ASSUME Len(a) = 2
       PROVE  L = IF a[2] \in about THEN {two}
                  ELSE IF a[1] \in about THEN {one} ELSE LastAmong(t, n, about)
  <2>1. \A p : p \in L <=> /\ p \in P \/ p = one \/ p = two
                           /\ ActionAt(t, p) \in about
                           /\ \A q \in P : Earlier(p, q) => ActionAt(t, q) \notin about
                           /\ Earlier(p, one) => ActionAt(t, one) \notin about
                           /\ Earlier(p, two) => ActionAt(t, two) \notin about
    BY <1>5, <1>7, <1>10
  <2>2. /\ two \in L <=> a[2] \in about
        /\ one \in L <=> a[1] \in about /\ a[2] \notin about
    BY <1>1, <1>2, <1>3, <2>1
  <2>3. \A p \in P : p \in L <=> /\ p \in LastAmong(t, n, about)
                                 /\ a[1] \notin about /\ a[2] \notin about
    BY <1>1, <1>3, <1>8, <2>1
  <2>4. \A p \in L : p \in P \/ p = one \/ p = two
    BY <2>1
  <2>5. LastAmong(t, n, about) \subseteq P
    BY <1>8
  <2> HIDE DEF L
  <2> QED BY <2>2, <2>3, <2>4, <2>5
<1>11. LastAmong(t, n + 1, about) =
         IF Len(a) = 2 /\ a[2] \in about THEN {two}
         ELSE IF a[1] \in about THEN {one} ELSE LastAmong(t, n, about)
  BY <1>6, <1>9, <1>10
<1> QED BY <1>11 DEF a, one, two

-----------------------------------------------------------------------------
(***************************************************************************)
(* What a table holds, commit by commit.                                   *)
(***************************************************************************)

LEMMA AfterIsSeen ==
  ASSUME NEW t, NEW n
  PROVE  /\ After(t, n) \in Seen
         /\ After(t, n).schema = SchemaAfter(t, n)
         /\ After(t, n).active = Live(t, n) /\ After(t, n).vectors = WithVector(t, n)
BY DEF After, SchemaAfter, Seen, Live, WithVector

LEMMA BeforeTheFirst ==
  ASSUME NEW t
  PROVE  Live(t, 0) = {}
<1>1. Places(t, 0) = {}
  BY DEF Places
<1> QED BY <1>1 DEF Live, LastOn, LastAmong

\* What the last action of a kind says, when it is one that is known.
LEMMA WhatTheLastSays ==
  ASSUME NEW t, NEW n, NEW p
  PROVE  /\ \A f \in Files : LastOn(t, n, f) = {p} =>
              /\ f \in Live(t, n) <=> ActionAt(t, p).kind = "add"
              /\ f \in WithVector(t, n) <=>
                   f \in Live(t, n) /\ ActionAt(t, p).vector
         /\ LastSchema(t, n) = {p} =>
              SchemaAfter(t, n) = IF ActionAt(t, p).mapped THEN "mapped" ELSE "plain"
BY DEF Live, WithVector, SchemaAfter, Mapped

\* And when it is the one of an earlier commit.
LEMMA WhatTheLastSaid ==
  ASSUME NEW t, NEW n, NEW m
  PROVE  /\ \A f \in Files : LastOn(t, n, f) = LastOn(t, m, f) =>
              /\ f \in Live(t, n) <=> f \in Live(t, m)
              /\ f \in WithVector(t, n) <=> f \in WithVector(t, m)
         /\ LastSchema(t, n) = LastSchema(t, m) => SchemaAfter(t, n) = SchemaAfter(t, m)
BY DEF Live, WithVector, SchemaAfter, Mapped

\* A reader that applies a commit to what the table held before it has what the
\* table holds after it.
LEMMA TableStep ==
  ASSUME NEW t, NEW n \in Nat, log[t][n + 1] \in Created \cup Commits
  PROVE  After(t, n + 1) = ApplyAll(After(t, n), log[t][n + 1])
<1> DEFINE a == log[t][n + 1]
           w == After(t, n)
           w1 == Apply(w, a[1])
           w2 == Apply(w1, a[2])
<1>1. Len(a) \in {1, 2} /\ a[1] \in Action /\ (Len(a) = 2 => a[2] \in Action)
  BY CommitShapes
<1>2. /\ ActionAt(t, <<n + 1, 1>>) = a[1] /\ ActionAt(t, <<n + 1, 2>>) = a[2]
  BY DEF ActionAt
<1>3. Len(log[t][n + 1]) \in {1, 2}
  BY <1>1
<1>4. w \in Seen /\ w.schema = SchemaAfter(t, n) /\ w.active = Live(t, n) /\ w.vectors = WithVector(t, n)
  BY AfterIsSeen
<1>5. /\ After(t, n + 1) \in Seen
      /\ After(t, n + 1).schema = SchemaAfter(t, n + 1)
      /\ After(t, n + 1).active = Live(t, n + 1)
      /\ After(t, n + 1).vectors = WithVector(t, n + 1)
  BY AfterIsSeen
<1> HIDE DEF a, w, w1, w2
<1>6. /\ w1 \in Seen
      /\ w1.schema = IF a[1] \in SchemaActions THEN IF a[1].mapped THEN "mapped" ELSE "plain" ELSE w.schema
      /\ \A f \in Files :
           /\ f \in w1.active <=> IF a[1] \in ActionsOn(f) THEN a[1].kind = "add" ELSE f \in w.active
           /\ f \in w1.vectors <=>
                IF a[1] \in ActionsOn(f) THEN a[1].kind = "add" /\ a[1].vector ELSE f \in w.vectors
  BY <1>1, <1>4, ApplyOne DEF w1
<1>7. Len(a) = 2 =>
      /\ w2 \in Seen
      /\ w2.schema = IF a[2] \in SchemaActions THEN IF a[2].mapped THEN "mapped" ELSE "plain" ELSE w1.schema
      /\ \A f \in Files :
           /\ f \in w2.active <=> IF a[2] \in ActionsOn(f) THEN a[2].kind = "add" ELSE f \in w1.active
           /\ f \in w2.vectors <=>
                IF a[2] \in ActionsOn(f) THEN a[2].kind = "add" /\ a[2].vector ELSE f \in w1.vectors
  BY <1>1, <1>6, ApplyOne DEF w2
<1>8. ASSUME NEW u \in Seen,
             u.schema = SchemaAfter(t, n + 1),
             \A f \in Files : /\ f \in u.active <=> f \in Live(t, n + 1)
                              /\ f \in u.vectors <=> f \in WithVector(t, n + 1)
      PROVE  After(t, n + 1) = u
  <2>1. u.active = Live(t, n + 1) /\ u.vectors = WithVector(t, n + 1)
    BY <1>8 DEF Seen, Live, WithVector
  <2> QED BY <1>5, <1>8, <2>1 DEF Seen
<1>9. ASSUME NEW f \in Files
      PROVE  /\ Len(a) = 2 /\ a[2] \in ActionsOn(f) => LastOn(t, n + 1, f) = {<<n + 1, 2>>}
             /\ ~(Len(a) = 2 /\ a[2] \in ActionsOn(f)) /\ a[1] \in ActionsOn(f) =>
                  LastOn(t, n + 1, f) = {<<n + 1, 1>>}
             /\ ~(Len(a) = 2 /\ a[2] \in ActionsOn(f)) /\ a[1] \notin ActionsOn(f) =>
                  LastOn(t, n + 1, f) = LastOn(t, n, f)
  <2>1. LastOn(t, n, f) = LastAmong(t, n, ActionsOn(f)) /\ LastOn(t, n + 1, f) = LastAmong(t, n + 1, ActionsOn(f))
    BY DEF LastOn
  <2>2. QED
    BY <1>3, <2>1, LastAfter DEF a
<1>10. /\ Len(a) = 2 /\ a[2] \in SchemaActions => LastSchema(t, n + 1) = {<<n + 1, 2>>}
       /\ ~(Len(a) = 2 /\ a[2] \in SchemaActions) /\ a[1] \in SchemaActions =>
            LastSchema(t, n + 1) = {<<n + 1, 1>>}
       /\ ~(Len(a) = 2 /\ a[2] \in SchemaActions) /\ a[1] \notin SchemaActions =>
            LastSchema(t, n + 1) = LastSchema(t, n)
  BY <1>3, LastAfter DEF LastSchema, a
<1>11. SchemaAfter(t, n + 1) =
         IF Len(a) = 2 /\ a[2] \in SchemaActions THEN IF a[2].mapped THEN "mapped" ELSE "plain"
         ELSE IF a[1] \in SchemaActions THEN IF a[1].mapped THEN "mapped" ELSE "plain"
         ELSE SchemaAfter(t, n)
  BY <1>2, <1>10, WhatTheLastSays, WhatTheLastSaid
<1>12. ASSUME NEW f \in Files
       PROVE  /\ f \in Live(t, n + 1) <=>
                   IF Len(a) = 2 /\ a[2] \in ActionsOn(f) THEN a[2].kind = "add"
                   ELSE IF a[1] \in ActionsOn(f) THEN a[1].kind = "add" ELSE f \in Live(t, n)
              /\ f \in WithVector(t, n + 1) <=>
                   IF Len(a) = 2 /\ a[2] \in ActionsOn(f) THEN a[2].kind = "add" /\ a[2].vector
                   ELSE IF a[1] \in ActionsOn(f) THEN a[1].kind = "add" /\ a[1].vector
                   ELSE f \in WithVector(t, n)
  <2> DEFINE said(b) == /\ f \in Live(t, n + 1) <=> b.kind = "add"
                        /\ f \in WithVector(t, n + 1) <=> b.kind = "add" /\ b.vector
  <2>1. ASSUME Len(a) = 2 /\ a[2] \in ActionsOn(f) PROVE said(a[2])
    <3>1. LastOn(t, n + 1, f) = {<<n + 1, 2>>}
      BY <1>9, <2>1
    <3> QED BY <1>2, <3>1, WhatTheLastSays, ZenonT(20)
  <2>2. ASSUME ~(Len(a) = 2 /\ a[2] \in ActionsOn(f)), a[1] \in ActionsOn(f) PROVE said(a[1])
    <3>1. LastOn(t, n + 1, f) = {<<n + 1, 1>>}
      BY <1>9, <2>2
    <3> QED BY <1>2, <3>1, WhatTheLastSays
  <2>3. CASE ~(Len(a) = 2 /\ a[2] \in ActionsOn(f)) /\ a[1] \notin ActionsOn(f)
    BY <1>9, <2>3, WhatTheLastSaid
  <2> QED BY <2>1, <2>2, <2>3
<1>13. CASE Len(a) = 1
  <2>1. ApplyAll(w, a) = w1
    BY <1>13 DEF ApplyAll, w1
  <2>2. w1.schema = SchemaAfter(t, n + 1)
    BY <1>4, <1>6, <1>11, <1>13
  <2>3. \A f \in Files : /\ f \in w1.active <=> f \in Live(t, n + 1)
                         /\ f \in w1.vectors <=> f \in WithVector(t, n + 1)
    BY <1>4, <1>6, <1>12, <1>13
  <2> QED BY <1>6, <1>8, <2>1, <2>2, <2>3 DEF a, w
<1>14. CASE Len(a) = 2
  <2>1. ApplyAll(w, a) = w2
    BY <1>14 DEF ApplyAll, w1, w2
  <2>2. w2.schema = SchemaAfter(t, n + 1)
    BY <1>4, <1>6, <1>7, <1>11, <1>14
  <2>3. \A f \in Files : /\ f \in w2.active <=> f \in Live(t, n + 1)
                         /\ f \in w2.vectors <=> f \in WithVector(t, n + 1)
    BY <1>4, <1>6, <1>7, <1>12, <1>14
  <2> QED BY <1>7, <1>8, <1>14, <2>1, <2>2, <2>3 DEF a, w
<1> QED BY <1>1, <1>13, <1>14

-----------------------------------------------------------------------------
(***************************************************************************)
(* Commits and clean-up: what a table was stays what it was.               *)
(***************************************************************************)

Grew ==
  \A t \in DeltaTables :
    /\ Len(log[t]) <= Len(log'[t]) /\ Len(log'[t]) \in Nat
    /\ \A i \in 1..Len(log[t]) : log'[t][i] = log[t][i]
    /\ first[t] <= first'[t] /\ first'[t] \in Nat

LEMMA LogTypes ==
  ASSUME LogIsSound, NEW t \in DeltaTables
  PROVE  /\ log[t] \in Seq(Created \cup Commits) /\ Len(log[t]) \in Nat /\ Len(log[t]) >= 1
         /\ first[t] \in Nat /\ first[t] >= 1 /\ first[t] <= Len(log[t])
         /\ \A i \in 1..Len(log[t]) : log[t][i] \in Created \cup Commits
BY DEF LogIsSound

LEMMA PastIsFixed ==
  ASSUME LogIsSound, Grew, NEW t \in DeltaTables, NEW n \in Nat, n <= Len(log[t])
  PROVE  /\ Live(t, n)' = Live(t, n) /\ WithVector(t, n)' = WithVector(t, n)
         /\ Mapped(t, n)' <=> Mapped(t, n)
         /\ After(t, n)' = After(t, n)
<1>1. \A i \in 1..n : log'[t][i] = log[t][i]
  BY LogTypes DEF Grew
<1>2. Places(t, n)' = Places(t, n)
  BY <1>1 DEF Places
<1>3. \A p \in Places(t, n) : ActionAt(t, p)' = ActionAt(t, p)
  BY <1>1 DEF Places, ActionAt
<1>4. ASSUME NEW about PROVE LastAmong(t, n, about)' = LastAmong(t, n, about)
  BY <1>2, <1>3 DEF LastAmong
<1>5. /\ \A f \in Files : LastOn(t, n, f)' = LastOn(t, n, f)
      /\ LastSchema(t, n)' = LastSchema(t, n)
  BY <1>4 DEF LastOn, LastSchema
<1>6. /\ \A f \in Files : \A p \in LastOn(t, n, f) : ActionAt(t, p)' = ActionAt(t, p)
      /\ \A p \in LastSchema(t, n) : ActionAt(t, p)' = ActionAt(t, p)
  BY <1>3 DEF LastOn, LastSchema, LastAmong
<1>7. Live(t, n)' = Live(t, n)
  BY <1>5, <1>6 DEF Live
<1>8. WithVector(t, n)' = WithVector(t, n)
  <2>1. Live(t, n) \subseteq Files
    BY DEF Live
  <2> QED BY <1>5, <1>6, <1>7, <2>1 DEF WithVector
<1>9. Mapped(t, n)' <=> Mapped(t, n)
  BY <1>5, <1>6 DEF Mapped
<1>10. SchemaAfter(t, n)' = SchemaAfter(t, n)
  BY <1>5, <1>9 DEF SchemaAfter
<1> QED BY <1>7, <1>8, <1>9, <1>10 DEF After

LEMMA PlanStays ==
  ASSUME LogIsSound, Grew, NEW t \in DeltaTables, NEW plan, AsItWas(t, plan)
  PROVE  AsItWas(t, plan)'
<1>1. plan.upTo \in Nat /\ plan.upTo <= Len(log[t]) /\ plan.upTo >= 1
  BY LogTypes DEF AsItWas
<1>2. /\ Live(t, plan.upTo)' = Live(t, plan.upTo)
      /\ WithVector(t, plan.upTo)' = WithVector(t, plan.upTo)
      /\ Mapped(t, plan.upTo)' <=> Mapped(t, plan.upTo)
  BY <1>1, PastIsFixed
<1>3. plan.upTo \in 1..Len(log'[t]) /\ (first'[t] = 1 => first[t] = 1)
  BY <1>1, LogTypes DEF Grew
<1> QED BY <1>2, <1>3 DEF AsItWas

LEMMA ReplayStays ==
  ASSUME LogIsSound, Grew, NEW q \in Asking, q.since \in 1..Len(log[q.table]),
         ReplayedInOrder(q), NotedSoFar(q.table, ReadUpTo(q), q.seen)
  PROVE  (ReplayedInOrder(q) /\ NotedSoFar(q.table, ReadUpTo(q), q.seen))'
<1> DEFINE t == q.table
           n == ReadUpTo(q)
           seen == q.seen
<1>1. t \in DeltaTables /\ q.plan.upTo \in Nat /\ Len(q.todo) \in Nat /\ q.since \in Nat
  BY DEF Asking, DeltaPlan
<1>2. n \in Nat /\ n <= Len(log[t]) /\ n' = n
  BY <1>1, LogTypes DEF ReplayedInOrder, ReadUpTo
<1>3. After(t, n)' = After(t, n) /\ Live(t, n)' = Live(t, n) /\ (first'[t] = 1 => first[t] = 1)
  BY <1>1, <1>2, PastIsFixed, LogTypes DEF Grew
<1>4. ReplayedInOrder(q)'
  BY <1>1, LogTypes DEF ReplayedInOrder, ReadUpTo, Grew
<1>5. NotedSoFar(t, n, seen)'
  BY <1>2, <1>3 DEF NotedSoFar, Agrees
<1> QED BY <1>4, <1>5

LEMMA CauseStays ==
  ASSUME LogIsSound, Grew, NEW t \in DeltaTables, NEW n \in Nat, n <= Len(log[t]), Cause(t, n)
  PROVE  Cause(t, n)'
<1>1. first[t] > 1 => first'[t] > 1
  BY LogTypes DEF Grew
<1> QED BY <1>1, PastIsFixed DEF Cause

LEMMA CallStays ==
  ASSUME LogIsSound, Grew, NEW q, CallIsSound(q)
  PROVE  CallIsSound(q)'
<1> DEFINE t == q.table
<1>1. q \in Asking /\ t \in DeltaTables /\ q.since \in 1..Len(log[t]) /\ q.since \in Nat
  BY DEF CallIsSound, Asking
<1>2. Len(log[t]) \in Nat /\ Len(log'[t]) \in Nat /\ Len(log[t]) <= Len(log'[t])
  BY <1>1, LogTypes DEF Grew
<1>3. q.since \in 1..Len(log'[t])
  BY <1>1, <1>2
<1>4. q.at = "replay" => (ReplayedInOrder(q) /\ NotedSoFar(q.table, ReadUpTo(q), q.seen))'
  BY <1>1, ReplayStays DEF CallIsSound
<1>5. q.at = "planned" => AsItWas(t, q.plan)' /\ q.plan.upTo >= q.since
  BY <1>1, PlanStays DEF CallIsSound
<1>6. q.at = "refused" => \E n \in q.since..Len(log'[t]) : Cause(t, n)'
  <2> SUFFICES ASSUME q.at = "refused" PROVE \E n \in q.since..Len(log'[t]) : Cause(t, n)'
    OBVIOUS
  <2>1. PICK n \in q.since..Len(log[t]) : Cause(t, n)
    BY DEF CallIsSound
  <2>2. n \in q.since..Len(log'[t]) /\ n \in Nat /\ n <= Len(log[t])
    BY <1>1, <1>2
  <2>3. Cause(t, n)'
    BY <1>1, <2>1, <2>2, CauseStays
  <2> QED BY <2>2, <2>3
<1> QED BY <1>1, <1>3, <1>4, <1>5, <1>6 DEF CallIsSound, AskedFrom

LEMMA CacheStays ==
  ASSUME LogIsSound, Grew, CacheIsSound, cache' = cache
  PROVE  CacheIsSound'
<1>1. ASSUME NEW t \in DOMAIN cache
      PROVE  AsItWas(t, cache[t].plan)'
  <2>1. PICK plan : plan = cache[t].plan
    OBVIOUS
  <2>2. t \in DeltaTables /\ AsItWas(t, plan)
    BY <2>1 DEF CacheIsSound
  <2>3. AsItWas(t, plan)'
    BY <2>2, PlanStays
  <2> QED BY <2>1, <2>3 DEF AsItWas
<1> QED BY <1>1 DEF CacheIsSound

\* What writers do leaves the threads and the cache sound.
LEMMA WorldStep ==
  ASSUME DeltaInv, LogIsSound', Grew, cache' = cache, planCall' = planCall
  PROVE  DeltaInv'
<1>1. CacheIsSound'
  BY CacheStays DEF DeltaInv
<1>2. ASSUME NEW c \in Calls, planCall[c] # Idle
      PROVE  CallIsSound(planCall[c])'
  <2>1. PICK q : q = planCall[c]
    OBVIOUS
  <2>2. CallIsSound(q)'
    BY <1>2, <2>1, CallStays DEF DeltaInv
  <2>3. planCall'[c] = q
    BY <2>1
  <2> QED BY <2>2, <2>3
<1> QED BY <1>1, <1>2 DEF DeltaInv

LEMMA NothingGrew ==
  ASSUME LogIsSound, UNCHANGED <<log, first>>
  PROVE  Grew /\ LogIsSound'
BY LogTypes DEF Grew, LogIsSound

\* What one thread does, to itself and perhaps the cache.
LEMMA CallStep ==
  ASSUME DeltaInv, NEW c \in Calls, NEW q, UNCHANGED <<log, first>>, CacheIsSound',
         planCall' = [planCall EXCEPT ![c] = q], q # Idle => CallIsSound(q)
  PROVE  DeltaInv'
<1>1. Grew /\ LogIsSound'
  BY NothingGrew DEF DeltaInv
<1>2. /\ DOMAIN planCall' = Calls /\ planCall' = [d \in Calls |-> planCall'[d]]
      /\ planCall'[c] = q /\ \A d \in Calls \ {c} : planCall'[d] = planCall[d]
  BY DEF DeltaInv
<1>3. ASSUME NEW d \in Calls, planCall'[d] # Idle
      PROVE  CallIsSound(planCall[d])'
  <2>1. PICK u : u = planCall'[d]
    OBVIOUS
  <2>2. CallIsSound(u)
    BY <1>2, <1>3, <2>1 DEF DeltaInv
  <2>3. CallIsSound(u)'
    BY <1>1, <2>2, CallStays DEF DeltaInv
  <2> QED BY <2>1, <2>3
<1> QED BY <1>1, <1>2, <1>3 DEF DeltaInv

\* The same when the cache stays.
LEMMA QuietCallStep ==
  ASSUME DeltaInv, NEW c \in Calls, NEW q, UNCHANGED <<log, first, cache>>,
         planCall' = [planCall EXCEPT ![c] = q], q # Idle => CallIsSound(q)
  PROVE  DeltaInv'
<1>1. CacheIsSound'
  BY NothingGrew, CacheStays DEF DeltaInv
<1> QED BY <1>1, CallStep

-----------------------------------------------------------------------------
(***************************************************************************)
(* The steps, one by one.                                                  *)
(***************************************************************************)

LEMMA DeltaInitInv ==
  ASSUME DeltaInit
  PROVE  DeltaInv
<1>1. LogIsSound
  <2>1. PICK actions \in [DeltaTables -> Created] : log = [t \in DeltaTables |-> <<actions[t]>>]
    BY DEF DeltaInit
  <2>2. \A t \in DeltaTables : log[t] \in Seq(Created \cup Commits) /\ Len(log[t]) = 1 /\ log[t][1] \in Created
    BY <2>1
  <2> QED BY <2>1, <2>2 DEF DeltaInit, LogIsSound
<1>2. CacheIsSound
  <2>1. DOMAIN cache = {}
    BY DEF DeltaInit
  <2> QED BY <2>1, FS_EmptySet, DeltaAssumption DEF CacheIsSound
<1> QED BY <1>1, <1>2 DEF DeltaInit, DeltaInv

LEMMA CommitInv ==
  ASSUME DeltaInv, NEW t \in DeltaTables, NEW actions \in Commits, Commit(t, actions)
  PROVE  DeltaInv'
<1>1. log' = [log EXCEPT ![t] = Append(log[t], actions)] /\ UNCHANGED <<first, cache, planCall>>
  BY DEF Commit
<1>2. LogIsSound
  BY DEF DeltaInv
<1>3. /\ Append(log[t], actions) \in Seq(Created \cup Commits)
      /\ Len(Append(log[t], actions)) = Len(log[t]) + 1
      /\ \A i \in 1..Len(log[t]) : Append(log[t], actions)[i] = log[t][i]
  BY <1>2, LogTypes
<1>4. Grew
  BY <1>1, <1>2, <1>3, LogTypes DEF Grew, LogIsSound
<1>5. LogIsSound'
  BY <1>1, <1>2, <1>3, LogTypes DEF LogIsSound
<1> QED BY <1>1, <1>4, <1>5, WorldStep

LEMMA CleanUpInv ==
  ASSUME DeltaInv, NEW t \in DeltaTables, CleanUp(t)
  PROVE  DeltaInv'
<1>1. LogIsSound
  BY DEF DeltaInv
<1>2. Grew
  BY <1>1, LogTypes DEF Grew, CleanUp, LogIsSound
<1>3. LogIsSound'
  BY <1>1, LogTypes DEF LogIsSound, CleanUp
<1> QED BY <1>2, <1>3, WorldStep DEF CleanUp

LEMMA ListInv ==
  ASSUME DeltaInv, NEW c \in Calls, NEW t \in DeltaTables, List(c, t)
  PROVE  DeltaInv'
<1> DEFINE q == [at |-> "listed", table |-> t, since |-> Len(log[t]), key |-> LogFingerprint(t),
                 todo |-> <<>>, seen |-> Nothing, plan |-> [files |-> {}, upTo |-> 0]]
<1>1. Len(log[t]) \in Nat /\ Len(log[t]) >= 1 /\ first[t] \in Nat /\ first[t] <= Len(log[t])
  BY LogTypes DEF DeltaInv
<1>2. /\ LogFingerprint(t) \in Fingerprint /\ LogFingerprint(t).highest = Len(log[t])
  <2>1. Len(LogVersions(t)) \in Nat
    BY <1>1 DEF LogVersions
  <2> QED BY <1>1, <2>1 DEF LogFingerprint, Fingerprint
<1>3. Nothing \in Seen /\ [files |-> {}, upTo |-> 0] \in DeltaPlan
  BY DEF Nothing, Seen, DeltaPlan
<1>4. q \in Asking
  BY <1>1, <1>2, <1>3 DEF Asking, Ats
<1>5. CallIsSound(q)
  BY <1>1, <1>2, <1>4 DEF CallIsSound, AskedFrom
<1> QED BY <1>5, QuietCallStep DEF List

LEMMA MissInv ==
  ASSUME DeltaInv, NEW c \in Calls, Miss(c)
  PROVE  DeltaInv'
<1> DEFINE q == [planCall[c] EXCEPT !.at = "missed"]
<1>1. CallIsSound(planCall[c]) /\ planCall[c] \in Asking /\ planCall[c].at = "listed"
  BY DEF DeltaInv, Miss, Idle, CallIsSound
<1>2. /\ q \in Asking /\ q.at = "missed" /\ q.seen = planCall[c].seen /\ q.key = planCall[c].key
      /\ q.since = planCall[c].since /\ q.table = planCall[c].table
  BY <1>1 DEF Asking, Ats
<1>3. CallIsSound(q)
  BY <1>1, <1>2 DEF CallIsSound, AskedFrom
<1>4. planCall' = [planCall EXCEPT ![c] = q]
  BY DEF Miss, Move
<1> QED BY <1>3, <1>4, QuietCallStep DEF Miss

LEMMA HitInv ==
  ASSUME DeltaInv, NEW c \in Calls, Hit(c)
  PROVE  DeltaInv'
<1> DEFINE old == planCall[c]
           t == old.table
           plan == cache[t].plan
           q == [old EXCEPT !.at = "planned", !.plan = plan]
<1>1. CallIsSound(old) /\ old \in Asking /\ old.at = "listed" /\ old.key.highest = old.since
  BY DEF DeltaInv, Hit, Idle, CallIsSound, AskedFrom
<1>2. t \in DOMAIN cache /\ cache[t].key = old.key
  BY DEF Hit, Cached
<1>3. /\ plan \in DeltaPlan /\ AsItWas(t, plan) /\ cache[t].key.highest <= plan.upTo
  BY <1>2 DEF DeltaInv, CacheIsSound, Entries
<1>4. /\ q \in Asking /\ q.at = "planned" /\ q.plan = plan /\ q.since = old.since /\ q.table = t
  BY <1>1, <1>3 DEF Asking, Ats
<1>5. plan.upTo >= old.since
  BY <1>1, <1>2, <1>3 DEF Asking, DeltaPlan
<1> HIDE DEF q, plan
<1>6. CallIsSound(q)
  BY <1>1, <1>3, <1>4, <1>5 DEF CallIsSound, AskedFrom
<1>7. planCall' = [planCall EXCEPT ![c] = q]
  BY DEF Hit, q, plan
<1> QED BY <1>6, <1>7, QuietCallStep DEF Hit

\* A replay begins with nothing noted, in front of the oldest commit there is.
LEMMA ListAgainInv ==
  ASSUME DeltaInv, NEW c \in Calls, ListAgain(c)
  PROVE  DeltaInv'
<1> DEFINE old == planCall[c]
           t == old.table
           todo == LogVersions(t)
           plan == [old.plan EXCEPT !.upTo = Len(log[t])]
           q == [old EXCEPT !.at = "replay", !.todo = todo, !.plan = plan]
<1>1. CallIsSound(old) /\ old \in Asking /\ old.at = "missed" /\ old.seen = Nothing
  BY DEF DeltaInv, ListAgain, Idle, CallIsSound
<1>2. t \in DeltaTables /\ old.plan \in DeltaPlan /\ old.since \in 1..Len(log[t]) /\ old.since \in Nat
  BY <1>1 DEF Asking, CallIsSound
<1>3. Len(log[t]) \in Nat /\ first[t] \in Nat /\ first[t] >= 1 /\ first[t] <= Len(log[t])
  BY <1>2, LogTypes DEF DeltaInv
<1>4. /\ todo \in Seq(Nat) /\ Len(todo) = Len(log[t]) - first[t] + 1
      /\ \A i \in 1..Len(todo) : todo[i] = first[t] + i - 1
  <2> DEFINE m == Len(log[t]) - first[t] + 1
  <2>1. m \in Nat /\ \A i \in 1..m : first[t] + i - 1 \in Nat
    BY <1>3
  <2>2. todo = [i \in 1..m |-> first[t] + i - 1]
    BY DEF LogVersions
  <2> HIDE DEF m, todo
  <2> DEFINE oldest == first[t]
  <2>3. m \in Nat /\ oldest \in Nat /\ \A i \in 1..m : oldest + i - 1 \in Nat
    BY <2>1, <1>3
  <2>4. todo = [i \in 1..m |-> oldest + i - 1]
    BY <2>2
  <2> HIDE DEF oldest
  <2>5. todo \in [1..m -> Nat]
    BY <2>3, <2>4
  <2>6. todo \in Seq(Nat) /\ Len(todo) = m
    BY <2>3, <2>5
  <2>7. \A i \in 1..m : todo[i] = oldest + i - 1
    BY <2>4
  <2> QED BY <2>6, <2>7 DEF m, oldest
<1>5. plan \in DeltaPlan /\ plan.upTo = Len(log[t])
  BY <1>2, <1>3 DEF DeltaPlan
<1> HIDE DEF todo, plan
<1>6. /\ q \in Asking /\ q.at = "replay" /\ q.todo = todo /\ q.plan = plan /\ q.seen = Nothing
      /\ q.since = old.since /\ q.table = t /\ q.key = old.key
  BY <1>1, <1>4, <1>5 DEF Asking, Ats
<1> HIDE DEF q
<1>7. ReadUpTo(q) = first[t] - 1
  BY <1>3, <1>4, <1>5, <1>6, SMTT(20) DEF ReadUpTo
<1>8. ReplayedInOrder(q)
  <2>1. q.plan.upTo \in q.since..Len(log[q.table])
    BY <1>2, <1>3, <1>5, <1>6
  <2>2. Len(q.todo) <= q.plan.upTo
    BY <1>3, <1>4, <1>5, <1>6
  <2>3. ASSUME NEW i \in 1..Len(q.todo) PROVE q.todo[i] = ReadUpTo(q) + i
    BY <1>3, <1>4, <1>6, <1>7, SMTT(20)
  <2> QED BY <2>1, <2>2, <2>3 DEF ReplayedInOrder
<1>9. NotedSoFar(t, ReadUpTo(q), Nothing)
  <2>1. Agrees(Nothing, After(t, ReadUpTo(q)))
    BY DEF Agrees, Nothing
  <2>2. first[t] = 1 => ReadUpTo(q) = 0
    BY <1>7
  <2> QED BY <2>1, <2>2, BeforeTheFirst DEF NotedSoFar, Nothing
<1>10. CallIsSound(q)
  BY <1>1, <1>2, <1>6, <1>8, <1>9 DEF CallIsSound, AskedFrom
<1>11. planCall' = [planCall EXCEPT ![c] = q]
  BY DEF ListAgain, q, plan, todo
<1> QED BY <1>10, <1>11, QuietCallStep DEF ListAgain

\* The notes after one more commit, by TableStep.
LEMMA ReadCommitInv ==
  ASSUME DeltaInv, NEW c \in Calls, ReadCommit(c)
  PROVE  DeltaInv'
<1> DEFINE old == planCall[c]
           t == old.table
           n == ReadUpTo(old)
           next == Head(old.todo)
           todo == Tail(old.todo)
           seen == ApplyAll(old.seen, log[t][next])
           q == [old EXCEPT !.todo = todo, !.seen = seen]
<1>1. /\ CallIsSound(old) /\ old \in Asking /\ old.at = "replay" /\ old.todo # <<>>
      /\ ReplayedInOrder(old) /\ NotedSoFar(t, n, old.seen)
  <2> HIDE DEF next, todo, seen, q
  <2>1. old.at = "replay" /\ old.todo # <<>>
    BY DEF ReadCommit
  <2>2. old # Idle
    BY <2>1 DEF Idle
  <2>3. CallIsSound(old)
    BY <2>2 DEF DeltaInv
  <2> HIDE DEF old
  <2>4. QED
    BY <2>1, <2>3 DEF CallIsSound
<1>2. /\ t \in DeltaTables /\ old.plan.upTo \in Nat /\ old.todo \in Seq(Nat) /\ old.seen \in Seen
      /\ old.since \in Nat
  BY <1>1 DEF Asking, DeltaPlan
<1>3. /\ Len(old.todo) \in Nat /\ Len(old.todo) > 0 /\ next = old.todo[1]
      /\ todo \in Seq(Nat) /\ Len(todo) = Len(old.todo) - 1
      /\ \A i \in 1..Len(todo) : todo[i] = old.todo[i + 1]
  BY <1>1, <1>2
<1>4. Len(log[t]) \in Nat /\ \A i \in 1..Len(log[t]) : log[t][i] \in Created \cup Commits
  BY <1>2, LogTypes DEF DeltaInv
<1>5. n \in Nat /\ n + 1 <= old.plan.upTo /\ old.plan.upTo <= Len(log[t])
  BY <1>1, <1>2, <1>3, <1>4 DEF ReplayedInOrder, ReadUpTo
<1>6. next = n + 1
  BY <1>1, <1>3 DEF ReplayedInOrder
<1>7. log[t][n + 1] \in Created \cup Commits
  <2>1. n + 1 \in 1..Len(log[t])
    BY <1>2, <1>4, <1>5
  <2> QED BY <1>4, <2>1
<1>8. After(t, n + 1) = ApplyAll(After(t, n), log[t][n + 1])
  BY <1>5, <1>7, TableStep
<1>9. Agrees(old.seen, After(t, n)) /\ After(t, n) \in Seen
  BY <1>1, AfterIsSeen DEF NotedSoFar
<1>10. /\ seen \in Seen /\ Agrees(seen, After(t, n + 1))
       /\ old.seen.active = Live(t, n) => seen.active = Live(t, n + 1)
       /\ old.seen.schema # "none" \/ log[t][n + 1] \in Created => seen.schema # "none"
  BY <1>2, <1>6, <1>7, <1>8, <1>9, ApplyAllKeepsAgreement, AfterIsSeen
<1> HIDE DEF todo, seen, next
<1>11. /\ q \in Asking /\ q.at = "replay" /\ q.todo = todo /\ q.plan = old.plan /\ q.seen = seen
       /\ q.since = old.since /\ q.table = t /\ q.key = old.key
  BY <1>1, <1>3, <1>10 DEF Asking, Ats
<1> HIDE DEF q
<1>12. ReadUpTo(q) = n + 1
  <2>1. n = old.plan.upTo - Len(old.todo)
    BY DEF ReadUpTo
  <2>2. ReadUpTo(q) = old.plan.upTo - Len(todo)
    BY <1>11 DEF ReadUpTo
  <2>3. old.plan.upTo \in Nat /\ Len(old.todo) \in Nat /\ Len(todo) = Len(old.todo) - 1
    BY <1>2, <1>3
  <2> HIDE DEF n, old
  <2> QED BY <2>1, <2>2, <2>3
<1>13. ReplayedInOrder(q)
  <2>1. \A i \in 1..Len(todo) : todo[i] = n + 1 + i
    BY <1>1, <1>3, <1>5 DEF ReplayedInOrder
  <2>2. Len(todo) <= old.plan.upTo
    BY <1>1, <1>2, <1>3 DEF ReplayedInOrder
  <2> QED BY <1>1, <1>11, <1>12, <2>1, <2>2 DEF ReplayedInOrder
<1>14. NotedSoFar(t, n + 1, seen)
  <2> SUFFICES ASSUME first[t] = 1 PROVE seen.active = Live(t, n + 1) /\ seen.schema # "none"
    BY <1>10 DEF NotedSoFar
  <2>1. seen.active = Live(t, n + 1)
    BY <1>1, <1>10 DEF NotedSoFar
  <2>2. CASE n = 0
    <3>1. log[t][n + 1] \in Created
      BY <1>2, <2>2 DEF DeltaInv, LogIsSound
    <3> QED BY <1>10, <2>1, <3>1
  <2>3. CASE n > 0
    BY <1>1, <1>10, <2>1, <2>3 DEF NotedSoFar
  <2> QED BY <1>5, <2>2, <2>3
<1>15. CallIsSound(q)
  BY <1>1, <1>11, <1>12, <1>13, <1>14 DEF CallIsSound, AskedFrom
<1>16. planCall' = [planCall EXCEPT ![c] = q]
  BY DEF ReadCommit, q, todo, seen, next
<1> QED BY <1>15, <1>16, QuietCallStep DEF ReadCommit

LEMMA ReadFailsInv ==
  ASSUME DeltaInv, NEW c \in Calls, ReadFails(c)
  PROVE  DeltaInv'
<1> DEFINE old == planCall[c]
           none == <<>>
           q == [old EXCEPT !.at = "failed", !.todo = none, !.seen = Nothing]
<1>1. CallIsSound(old) /\ old \in Asking
  BY DEF DeltaInv, ReadFails, Idle, CallIsSound
<1>2. Nothing \in Seen /\ none \in Seq(Nat)
  BY DEF Nothing, Seen
<1> HIDE DEF none
<1>3. q \in Asking /\ q.at = "failed" /\ q.since = old.since /\ q.table = old.table
  BY <1>1, <1>2 DEF Asking, Ats
<1>4. CallIsSound(q)
  BY <1>1, <1>3 DEF CallIsSound, AskedFrom
<1>5. planCall' = [planCall EXCEPT ![c] = q]
  BY DEF ReadFails, none
<1> QED BY <1>4, <1>5, QuietCallStep DEF ReadFails

\* A replay that is done has noted the table after commit `upTo`.
LEMMA ReplayIsDone ==
  ASSUME DeltaInv, NEW c \in Calls, Replayed(c)
  PROVE  LET q == planCall[c]
         IN /\ CallIsSound(q) /\ q \in Asking /\ q.table \in DeltaTables
            /\ q.plan.upTo \in q.since..Len(log[q.table]) /\ q.plan.upTo \in 1..Len(log[q.table])
            /\ q.key.highest = q.since
            /\ NotedSoFar(q.table, q.plan.upTo, q.seen)
<1> DEFINE q == planCall[c]
<1>1. /\ CallIsSound(q) /\ q \in Asking /\ q.at = "replay" /\ q.todo = <<>>
      /\ ReplayedInOrder(q) /\ NotedSoFar(q.table, ReadUpTo(q), q.seen) /\ q.key.highest = q.since
      /\ q.since \in 1..Len(log[q.table])
  BY DEF DeltaInv, Replayed, Idle, CallIsSound, AskedFrom
<1>2. q.table \in DeltaTables /\ q.plan.upTo \in Nat /\ q.since \in Nat
  BY <1>1 DEF Asking, DeltaPlan
<1>3. ReadUpTo(q) = q.plan.upTo
  BY <1>1, <1>2 DEF ReadUpTo
<1>4. Len(log[q.table]) \in Nat
  BY <1>2, LogTypes DEF DeltaInv
<1> QED BY <1>1, <1>2, <1>3, <1>4 DEF ReplayedInOrder

LEMMA RefuseInv ==
  ASSUME DeltaInv, NEW c \in Calls, Refuse(c)
  PROVE  DeltaInv'
<1> DEFINE old == planCall[c]
           t == old.table
           n == old.plan.upTo
           q == [old EXCEPT !.at = "refused", !.seen = Nothing]
<1>1. /\ CallIsSound(old) /\ old \in Asking /\ t \in DeltaTables
      /\ n \in old.since..Len(log[t]) /\ n \in 1..Len(log[t])
      /\ NotedSoFar(t, n, old.seen)
  BY ReplayIsDone DEF Refuse
<1>2. old.seen \in Seen /\ Nothing \in Seen
  BY <1>1 DEF Asking, Nothing, Seen
<1>3. Cause(t, n)
  <2>1. old.seen.schema # "plain" \/ old.seen.vectors # {}
    BY DEF Refuse, Readable
  <2>2. CASE old.seen.schema = "none"
    <3>1. first[t] # 1
      BY <1>1, <2>2 DEF NotedSoFar
    <3> QED BY <1>1, <3>1, LogTypes DEF Cause, DeltaInv
  <2>3. CASE old.seen.schema = "mapped"
    <3>1. SchemaAfter(t, n) = "mapped"
      BY <1>1, <2>3, AfterIsSeen DEF NotedSoFar, Agrees
    <3> QED BY <3>1 DEF SchemaAfter, Cause
  <2>4. CASE old.seen.vectors # {}
    BY <1>1, <2>4, AfterIsSeen DEF NotedSoFar, Agrees, Cause
  <2> QED BY <1>2, <2>1, <2>2, <2>3, <2>4 DEF Seen
<1>4. q \in Asking /\ q.at = "refused" /\ q.since = old.since /\ q.table = t
  BY <1>1, <1>2 DEF Asking, Ats
<1>5. CallIsSound(q)
  BY <1>1, <1>3, <1>4 DEF CallIsSound, AskedFrom
<1>6. planCall' = [planCall EXCEPT ![c] = q]
  BY DEF Refuse
<1> QED BY <1>5, <1>6, QuietCallStep DEF Refuse

\* A plan is the table after commit `upTo`, which is not older than its
\* fingerprint; the cache has room for it.
LEMMA MakeInv ==
  ASSUME DeltaInv, NEW c \in Calls, Make(c)
  PROVE  DeltaInv'
<1> DEFINE old == planCall[c]
           n == old.plan.upTo
<1>0. PICK t : t = old.table
  OBVIOUS
<1> DEFINE others == IF Cardinality(DOMAIN cache) >= CacheMax /\ t \notin DOMAIN cache
                     THEN {} ELSE DOMAIN cache
<1>1. /\ CallIsSound(old) /\ old \in Asking /\ t \in DeltaTables
      /\ n \in old.since..Len(log[t]) /\ n \in 1..Len(log[t])
      /\ old.key.highest = old.since
      /\ NotedSoFar(t, n, old.seen)
  BY <1>0, ReplayIsDone DEF Make
<1>2. old.seen \in Seen /\ Nothing \in Seen /\ old.plan \in DeltaPlan /\ old.key \in Fingerprint
  BY <1>1 DEF Asking, Nothing, Seen
<1>3. PICK plan : /\ plan = [old.plan EXCEPT !.files = old.seen.active]
                   /\ plan \in DeltaPlan /\ plan.files = old.seen.active /\ plan.upTo = n
  <2> DEFINE made == [old.plan EXCEPT !.files = old.seen.active]
  <2>1. made \in DeltaPlan /\ made.files = old.seen.active /\ made.upTo = n
    BY <1>2 DEF DeltaPlan, Seen
  <2> QED BY <2>1
<1> DEFINE q == [old EXCEPT !.at = "planned", !.plan = plan, !.seen = Nothing]
<1>4. old.seen.schema = "plain" /\ old.seen.vectors = {}
  BY DEF Make, Readable
<1>5. AsItWas(t, plan)
  <2>1. SchemaAfter(t, n) = "plain"
    BY <1>1, <1>4, AfterIsSeen DEF NotedSoFar, Agrees
  <2>2. ~Mapped(t, n)
    BY <2>1 DEF SchemaAfter
  <2>3. /\ old.seen.active \subseteq Live(t, n) /\ old.seen.active \cap WithVector(t, n) = {}
        /\ first[t] = 1 => old.seen.active = Live(t, n)
    BY <1>1, <1>4, AfterIsSeen DEF NotedSoFar, Agrees
  <2> QED BY <1>1, <1>3, <2>2, <2>3 DEF AsItWas
<1>6. /\ q \in Asking /\ q.at = "planned" /\ q.plan = plan /\ q.since = old.since /\ q.table = t
  BY <1>0, <1>1, <1>2, <1>3 DEF Asking, Ats
<1> HIDE DEF q
<1>7. n >= old.since /\ old.since \in Nat /\ n \in Nat
  BY <1>1 DEF Asking, DeltaPlan
<1>8. CallIsSound(q)
  BY <1>1, <1>3, <1>5, <1>6, <1>7 DEF CallIsSound, AskedFrom
<1>9. planCall' = [planCall EXCEPT ![c] = q] /\ UNCHANGED <<log, first>>
  BY <1>3 DEF Make, q
<1>10. planCall'[c].plan = plan
  BY <1>6, <1>9 DEF DeltaInv
<1>11. cache' = [x \in others \cup {t} |->
                   IF x = t THEN [key |-> old.key, plan |-> plan] ELSE cache[x]]
  BY <1>0, <1>10 DEF Make, Keep
<1>12. IsFiniteSet(others \cup {t}) /\ Cardinality(others \cup {t}) <= CacheMax
  <2>1. /\ IsFiniteSet(DOMAIN cache) /\ Cardinality(DOMAIN cache) <= CacheMax
        /\ Cardinality(DOMAIN cache) \in Nat /\ CacheMax \in Nat \ {0}
    BY FS_CardinalityType, DeltaAssumption DEF DeltaInv, CacheIsSound
  <2>2. CASE Cardinality(DOMAIN cache) >= CacheMax /\ t \notin DOMAIN cache
    <3>1. others \cup {t} = {t}
      BY <2>2
    <3>2. IsFiniteSet({t}) /\ Cardinality({t}) = 1
      BY FS_Singleton
    <3> QED BY <2>1, <3>1, <3>2
  <2>3. CASE t \in DOMAIN cache
    <3>1. others \cup {t} = DOMAIN cache
      BY <2>3
    <3> QED BY <2>1, <3>1
  <2>4. CASE Cardinality(DOMAIN cache) < CacheMax /\ t \notin DOMAIN cache
    <3>1. others \cup {t} = DOMAIN cache \cup {t}
      BY <2>1, <2>4
    <3>2. /\ IsFiniteSet(DOMAIN cache \cup {t})
          /\ Cardinality(DOMAIN cache \cup {t}) = Cardinality(DOMAIN cache) + 1
      BY <2>1, <2>4, FS_AddElement
    <3> QED BY <2>1, <2>4, <3>1, <3>2
  <2> QED BY <2>1, <2>2, <2>3, <2>4
<1>13. others \subseteq DOMAIN cache
  OBVIOUS
<1> HIDE DEF others
<1>14. Grew
  BY <1>9, NothingGrew DEF DeltaInv
<1>15. ASSUME NEW x \in others \cup {t}
       PROVE  /\ x \in DeltaTables /\ cache'[x] \in Entries
              /\ AsItWas(x, cache[x].plan)' /\ cache'[x].key.highest <= cache'[x].plan.upTo
  <2>1. CASE x = t
    <3>1. cache'[x] = [key |-> old.key, plan |-> plan]
      BY <1>11, <2>1
    <3>2. AsItWas(t, plan)'
      BY <1>1, <1>5, <1>14, PlanStays DEF DeltaInv, AsItWas
    <3>3. old.key.highest <= plan.upTo
      BY <1>1, <1>3, <1>7
    <3>4. AsItWas(x, cache[x].plan)'
      BY <2>1, <3>1, <3>2 DEF AsItWas
    <3>5. x \in DeltaTables /\ cache'[x] \in Entries
      BY <1>1, <1>2, <1>3, <2>1, <3>1 DEF Entries
    <3>6. cache'[x].key.highest <= cache'[x].plan.upTo
      BY <3>1, <3>3
    <3> QED BY <3>4, <3>5, <3>6
  <2>2. CASE x # t
    <3>1. PICK u : u = cache[x]
      OBVIOUS
    <3>2. cache'[x] = u /\ x \in DOMAIN cache
      BY <1>11, <1>13, <2>2, <3>1
    <3>3. x \in DeltaTables /\ u \in Entries /\ AsItWas(x, u.plan) /\ u.key.highest <= u.plan.upTo
      BY <3>1, <3>2 DEF DeltaInv, CacheIsSound
    <3>4. AsItWas(x, u.plan)'
      BY <1>14, <3>3, PlanStays DEF DeltaInv
    <3>5. AsItWas(x, cache[x].plan)'
      BY <3>2, <3>4 DEF AsItWas
    <3> QED BY <3>2, <3>3, <3>5
  <2> QED BY <2>1, <2>2
<1>16. DOMAIN cache' = others \cup {t}
  BY <1>11
<1>17. CacheIsSound'
  BY <1>12, <1>15, <1>16 DEF CacheIsSound
<1> QED BY <1>8, <1>9, <1>17, CallStep

LEMMA ReturnInv ==
  ASSUME DeltaInv, NEW c \in Calls, Return(c)
  PROVE  DeltaInv'
BY QuietCallStep DEF Return

-----------------------------------------------------------------------------
LEMMA DeltaNextInv ==
  ASSUME DeltaInv, [DeltaNext]_deltaVars
  PROVE  DeltaInv'
<1>1. ASSUME UNCHANGED deltaVars
      PROVE  DeltaInv'
  <2>1. Grew /\ LogIsSound'
    BY <1>1, NothingGrew DEF deltaVars, DeltaInv
  <2> QED BY <1>1, <2>1, WorldStep DEF deltaVars
<1>2. ASSUME NEW c \in Calls, AskPlan(c)
      PROVE  DeltaInv'
  BY <1>2, ListInv, HitInv, MissInv, ListAgainInv, ReadCommitInv, ReadFailsInv, RefuseInv, MakeInv,
     ReturnInv DEF AskPlan
<1> QED BY <1>1, <1>2, CommitInv, CleanUpInv DEF DeltaNext

THEOREM DeltaSoundness == DeltaSpec => []DeltaInv
BY DeltaInitInv, DeltaNextInv, PTL DEF DeltaSpec

\* Every state has its type, and the cache keeps within its room.
THEOREM TypeCorrect == DeltaSpec => []DeltaTypeOK
<1>1. DeltaInv => DeltaTypeOK
  <2> SUFFICES ASSUME DeltaInv PROVE DeltaTypeOK
    OBVIOUS
  <2>1. log \in [DeltaTables -> Seq(Seq(Action))]
    <3>1. Created \cup Commits \subseteq Seq(Action)
      BY CommitShapes
    <3> QED BY <3>1 DEF DeltaInv, LogIsSound
  <2>2. ASSUME NEW c \in Calls, planCall[c] # Idle
        PROVE  /\ planCall[c] \in Asking /\ planCall[c].since \in 1..Len(log[planCall[c].table])
    BY <2>2 DEF DeltaInv, CallIsSound
  <2> QED BY <2>1, <2>2 DEF DeltaTypeOK, DeltaInv, LogIsSound, CacheIsSound, Asking, Ats, Entries
<1> QED BY <1>1, DeltaSoundness, PTL

\* A call gets the table as it was at one moment of the call, whether the plan is
\* made now or kept by any other thread; a table that is refused is refused for
\* what it was at such a moment (`plan_cached`, `plan_uncached`).
THEOREM PlansAreTheTable == DeltaSpec => []PlanIsTheTable
<1>1. DeltaInv => PlanIsTheTable
  <2> SUFFICES ASSUME DeltaInv PROVE PlanIsTheTable
    OBVIOUS
  <2>1. ASSUME NEW c \in Calls, planCall[c] # Idle
        PROVE  CallIsSound(planCall[c])
    BY <2>1 DEF DeltaInv
  <2>2. ASSUME NEW c \in Calls, planCall[c] # Idle, planCall[c].at = "planned"
        PROVE  /\ planCall[c].plan.upTo \in Moments(c)
               /\ AsItWas(planCall[c].table, planCall[c].plan)
               /\ first[planCall[c].table] = 1 => WithVector(planCall[c].table, planCall[c].plan.upTo) = {}
    <3>1. AsItWas(planCall[c].table, planCall[c].plan) /\ planCall[c].plan.upTo >= planCall[c].since
      BY <2>1, <2>2 DEF CallIsSound
    <3>2. /\ planCall[c].since \in Nat /\ planCall[c].plan.upTo \in Nat
          /\ planCall[c].table \in DeltaTables
      BY <2>1, <2>2 DEF CallIsSound, Asking, DeltaPlan
    <3>3. Len(log[planCall[c].table]) \in Nat
      BY <3>2, LogTypes DEF DeltaInv
    <3>4. planCall[c].plan.upTo \in Moments(c)
      BY <3>1, <3>2, <3>3 DEF Moments, AsItWas
    <3> QED BY <3>1, <3>4 DEF AsItWas, WithVector
  <2>3. PlanIsAMoment
    BY <2>2 DEF PlanIsAMoment, AsItWas
  <2>4. PlanIsReadable
    BY <2>2 DEF PlanIsReadable, AsItWas
  <2>5. RefusedForCause
    BY <2>1 DEF RefusedForCause, CallIsSound, Cause, Moments
  <2> QED BY <2>3, <2>4, <2>5 DEF PlanIsTheTable
<1> QED BY <1>1, DeltaSoundness, PTL

-----------------------------------------------------------------------------
(***************************************************************************)
(* Iceberg columns.  A name that is not used again means one column: no    *)
(* two columns of the schema share a name or an id, and a column of the    *)
(* schema that has the name of a column of some file has its id.  A file's *)
(* own ids then find what was written to a column, and its names never     *)
(* find anything else.                                                     *)
(***************************************************************************)
SchemaColumns == [id : Nat, name : Names, type : Types]
SchemaFiles == [columns : Seq(SchemaColumns), ids : BOOLEAN]

\* No two columns of a schema have one name, or one id, and no id is one that was never given.
SchemaIsSound(s, last) ==
  /\ s \in Seq(SchemaColumns)
  /\ \A i, j \in DOMAIN s : s[i].name = s[j].name \/ s[i].id = s[j].id => i = j
  /\ \A i \in DOMAIN s : s[i].id <= last

\* No two columns of a file have one id, and a column of the table that has the name of one
\* of them has its id.
FileIsSound(f, s) ==
  /\ \A i, j \in DOMAIN f.columns : f.columns[i].id = f.columns[j].id => i = j
  /\ \A i \in DOMAIN f.columns, k \in DOMAIN s : f.columns[i].name = s[k].name => f.columns[i].id = s[k].id
FilesAreSound(fs, s) == \A n \in DOMAIN fs : FileIsSound(fs[n], s)

\* The inductive invariant.
SchemaInv ==
  /\ metadata \in [schema : Seq(SchemaColumns), schemas : Seq(Seq(SchemaColumns)), current : Nat]
  /\ metadata.schemas = <<>> \/ metadata.current = Len(metadata.schemas)
  /\ lastId \in Nat
  /\ SchemaIsSound(TableSchema, lastId)
  /\ files \in Seq(SchemaFiles) /\ FilesAreSound(files, TableSchema)
  /\ ColumnsKeepTheirValues

\* A column of a file with ids is found by its id or not at all.
LEMMA SourceIsOwn ==
  ASSUME NEW f, NEW s, FileIsSound(f, s), f.ids, NEW k \in DOMAIN s
  PROVE  SourceOf(f, s[k]) = Own(f, s[k])
<1>1. ById(f, s[k].id) = Own(f, s[k])
  BY DEF ById, Own
<1>2. Own(f, s[k]) = {} => ByName(f, s[k].name) = {}
  BY DEF ByName, FileIsSound, Own
<1>3. QED
  BY <1>1, <1>2 DEF SourceOf

\* What is read of a file with ids is each column's own.
LEMMA ProjectionIsOwn ==
  ASSUME NEW f \in SchemaFiles, NEW s, NEW n, FileIsSound(f, s), f.ids, NEW k \in DOMAIN s
  PROVE  ProjectBatch(s, f, n)[k] = OwnValue(f, n, s[k])
<1> DEFINE own == Own(f, s[k])
<1>1. ProjectBatch(s, f, n)[k] = IF own = {} THEN NullFill ELSE Value(n, Leftmost(own))
  <2>1. SourceOf(f, s[k]) = own
    BY SourceIsOwn
  <2> HIDE DEF own
  <2>2. QED
    BY <2>1 DEF ProjectBatch
<1>2. own \subseteq Nat
  BY DEF SchemaFiles, Own
<1>3. \A i, j \in own : i = j
  BY DEF FileIsSound, Own
<1> HIDE DEF own
<1>4. ASSUME own # {} PROVE Leftmost(own) = (CHOOSE i \in own : TRUE)
  <2>1. PICK i \in own : TRUE
    BY <1>4
  <2>2. \A j \in own : i <= j
    BY <1>2, <1>3, <2>1
  <2>3. Leftmost(own) \in own
    BY <2>1, <2>2 DEF Leftmost
  <2>4. (CHOOSE h \in own : TRUE) \in own
    BY <2>1
  <2>5. QED
    BY <1>3, <2>3, <2>4
<1>5. QED
  BY <1>1, <1>4 DEF own, OwnValue

\* The schema that has been written is the table's.
LEMMA BecomesTheSchema ==
  ASSUME SchemaInv, NEW s \in Seq(SchemaColumns), Becomes(s)
  PROVE  /\ metadata' \in [schema : Seq(SchemaColumns), schemas : Seq(Seq(SchemaColumns)), current : Nat]
         /\ metadata'.schemas = <<>> \/ metadata'.current = Len(metadata'.schemas)
         /\ TableSchema' = s
<1> DEFINE MetadataType == [schema : Seq(SchemaColumns), schemas : Seq(Seq(SchemaColumns)), current : Nat]
<1>1. CASE metadata.schemas = <<>>
  <2>1. metadata' = [metadata EXCEPT !.schema = s]
    BY <1>1 DEF Becomes
  <2>2. metadata' \in MetadataType /\ metadata'.schemas = <<>> /\ metadata'.schema = s
    BY <1>1, <2>1 DEF SchemaInv
  <2>3. DOMAIN metadata'.schemas = {}
    BY <2>2
  <2>4. QED
    BY <2>2, <2>3 DEF TableSchema, CurrentSchema
<1>2. CASE metadata.schemas # <<>>
  <2>1. metadata' = [metadata EXCEPT !.schemas = Append(@, s), !.current = Len(metadata.schemas) + 1]
    BY <1>2 DEF Becomes
  <2>2. metadata.schemas \in Seq(Seq(SchemaColumns))
    BY DEF SchemaInv
  <2>3. /\ Append(metadata.schemas, s) \in Seq(Seq(SchemaColumns))
        /\ Len(Append(metadata.schemas, s)) = Len(metadata.schemas) + 1
        /\ Append(metadata.schemas, s)[Len(metadata.schemas) + 1] = s
        /\ Len(metadata.schemas) \in Nat
    BY <2>2
  <2>4. metadata' \in MetadataType /\ metadata'.schemas = Append(metadata.schemas, s)
        /\ metadata'.current = Len(metadata.schemas) + 1
    <3>1. metadata \in MetadataType
      BY DEF SchemaInv
    <3>2. metadata' = [schema |-> metadata.schema, schemas |-> Append(metadata.schemas, s),
                       current |-> Len(metadata.schemas) + 1]
      BY <2>1, <3>1
    <3>3. metadata.schema \in Seq(SchemaColumns) /\ Len(metadata.schemas) + 1 \in Nat
      BY <2>3, <3>1
    <3>4. QED
      BY <2>3, <3>2, <3>3
  <2>5. metadata'.current \in DOMAIN metadata'.schemas
    BY <2>3, <2>4
  <2>6. QED
    BY <2>3, <2>4, <2>5 DEF TableSchema, CurrentSchema
<1>3. QED
  BY <1>1, <1>2

\* A step that writes a schema keeps the invariant when the schema is sound, and sound for
\* the files.
LEMMA SchemaIsWritten ==
  ASSUME SchemaInv, NEW s, Becomes(s), CanChange, lastId' \in Nat, SchemaIsSound(s, lastId'), files' = files, read' = read,
         FilesAreSound(files, s)
  PROVE  SchemaInv'
<1>1. TableSchema' = s /\ metadata' \in [schema : Seq(SchemaColumns), schemas : Seq(Seq(SchemaColumns)), current : Nat]
      /\ (metadata'.schemas = <<>> \/ metadata'.current = Len(metadata'.schemas))
  BY BecomesTheSchema DEF SchemaIsSound
<1>2. SchemaIsSound(TableSchema, lastId)' /\ FilesAreSound(files, TableSchema)'
  BY <1>1 DEF SchemaIsSound, FilesAreSound, FileIsSound
<1>3. ColumnsKeepTheirValues'
  BY DEF ColumnsKeepTheirValues, CanChange, Quiet, Unread
<1>4. QED
  BY <1>1, <1>2, <1>3 DEF SchemaInv

\* A name that no file has is nobody else's.
LEMMA NewNameIsNew ==
  ASSUME SchemaInv, NEW name, name \notin Retired, NEW n \in DOMAIN files, NEW i \in DOMAIN files[n].columns
  PROVE  files[n].columns[i].name # name
  BY DEF Retired

LEMMA AddColumnKeepsInv == ASSUME SchemaInv, ~Reuses, AddColumn PROVE SchemaInv'
<1>1. PICK name \in Names, type \in Types :
        ~Named(name) /\ name \notin Retired /\ Becomes(Append(TableSchema, Column(lastId + 1, name, type)))
  BY DEF AddColumn
<1> DEFINE c == Column(lastId + 1, name, type)
           s == Append(TableSchema, c)
<1>2. c \in SchemaColumns /\ c.name = name /\ c.id = lastId + 1
  BY DEF Column, SchemaColumns, SchemaInv
<1>3. TableSchema \in Seq(SchemaColumns) /\ lastId \in Nat /\ lastId' = lastId + 1
  BY DEF SchemaInv, SchemaIsSound, AddColumn
<1> HIDE DEF c
<1>4. /\ s \in Seq(SchemaColumns) /\ Len(s) = Len(TableSchema) + 1 /\ s[Len(TableSchema) + 1] = c
      /\ Len(TableSchema) \in Nat /\ \A i \in 1 .. Len(TableSchema) : s[i] = TableSchema[i]
  BY <1>2, <1>3
<1> HIDE DEF s
<1>5. \A i \in DOMAIN s : (i \in DOMAIN TableSchema /\ s[i] = TableSchema[i]) \/ (s[i] = c /\ i = Len(TableSchema) + 1)
  BY <1>3, <1>4
<1>6. \A i \in DOMAIN TableSchema : TableSchema[i].name # name /\ TableSchema[i].id <= lastId /\ TableSchema[i].id \in Nat
  <2>1. \A i \in DOMAIN TableSchema : TableSchema[i] \in SchemaColumns
    BY <1>3
  <2>2. QED
    BY <1>1, <2>1 DEF Named, SchemaInv, SchemaIsSound, SchemaColumns
<1>7. SchemaIsSound(s, lastId')
  <2>1. ASSUME NEW i \in DOMAIN s, NEW j \in DOMAIN s, s[i].name = s[j].name \/ s[i].id = s[j].id PROVE i = j
    <3>1. \A h \in DOMAIN TableSchema : TableSchema[h].id # lastId + 1
      BY <1>3, <1>6
    <3>2. CASE i \in DOMAIN TableSchema /\ s[i] = TableSchema[i] /\ j \in DOMAIN TableSchema /\ s[j] = TableSchema[j]
      BY <2>1, <3>2 DEF SchemaInv, SchemaIsSound
    <3>3. CASE s[i] = c /\ i = Len(TableSchema) + 1
      BY <1>2, <1>5, <1>6, <2>1, <3>1, <3>3
    <3>4. CASE s[j] = c /\ j = Len(TableSchema) + 1
      BY <1>2, <1>5, <1>6, <2>1, <3>1, <3>4
    <3>5. QED
      BY <1>5, <3>2, <3>3, <3>4
  <2>2. \A i \in DOMAIN s : s[i].id <= lastId'
    <3>1. ASSUME NEW i \in DOMAIN s PROVE s[i].id <= lastId'
      BY <1>2, <1>3, <1>5, <1>6
    <3>2. QED
      BY <3>1
  <2>3. QED
    BY <1>4, <2>1, <2>2 DEF SchemaIsSound
<1>8. FilesAreSound(files, s)
  <2>1. ASSUME NEW n \in DOMAIN files, NEW i \in DOMAIN files[n].columns, NEW k \in DOMAIN s, files[n].columns[i].name = s[k].name
        PROVE  files[n].columns[i].id = s[k].id
    <3>1. s[k] # c
      BY <1>1, <1>2, <2>1, NewNameIsNew
    <3>2. QED
      BY <1>5, <2>1, <3>1, SMTT(20) DEF SchemaInv, FilesAreSound, FileIsSound
  <2>2. QED
    BY <2>1 DEF SchemaInv, FilesAreSound, FileIsSound
<1>9. QED
  BY <1>1, <1>3, <1>7, <1>8, SchemaIsWritten DEF AddColumn, s, c

\* A schema whose columns are columns of the table's, each at most once, is sound.
LEMMA FewerColumns ==
  ASSUME SchemaInv, NEW s \in Seq(SchemaColumns), NEW from \in [DOMAIN s -> DOMAIN TableSchema],
         \A i \in DOMAIN s : s[i] = TableSchema[from[i]],
         \A i, j \in DOMAIN s : from[i] = from[j] => i = j
  PROVE  SchemaIsSound(s, lastId) /\ FilesAreSound(files, s)
<1>1. \A i \in DOMAIN s : from[i] \in DOMAIN TableSchema
  OBVIOUS
<1>2. SchemaIsSound(s, lastId)
  <2>1. ASSUME NEW i \in DOMAIN s, NEW j \in DOMAIN s, s[i].name = s[j].name \/ s[i].id = s[j].id PROVE i = j
    <3>1. s[i] = TableSchema[from[i]] /\ s[j] = TableSchema[from[j]]
          /\ from[i] \in DOMAIN TableSchema /\ from[j] \in DOMAIN TableSchema
      BY <1>1
    <3>2. \A h, k \in DOMAIN TableSchema :
            TableSchema[h].name = TableSchema[k].name \/ TableSchema[h].id = TableSchema[k].id => h = k
      BY DEF SchemaInv, SchemaIsSound
    <3>3. from[i] = from[j]
      BY <2>1, <3>1, <3>2
    <3>4. QED
      BY <3>3
  <2>2. \A i \in DOMAIN s : s[i].id <= lastId
    BY <1>1 DEF SchemaInv, SchemaIsSound
  <2>3. QED
    BY <2>1, <2>2 DEF SchemaIsSound
<1>3. ASSUME NEW n \in DOMAIN files PROVE FileIsSound(files[n], s)
  <2>1. FileIsSound(files[n], TableSchema)
    BY DEF SchemaInv, FilesAreSound
  <2>2. QED
    BY <1>1, <2>1 DEF FileIsSound
<1>4. QED
  BY <1>2, <1>3 DEF FilesAreSound

LEMMA DropColumnKeepsInv == ASSUME SchemaInv, DropColumn PROVE SchemaInv'
<1> DEFINE t == TableSchema
<1>1. PICK d \in DOMAIN t : Becomes(RemoveAt(t, d))
  BY DEF DropColumn
<1> DEFINE s == RemoveAt(t, d)
           from == [i \in DOMAIN s |-> IF i < d THEN i ELSE i + 1]
<1>2. t \in Seq(SchemaColumns) /\ d \in 1 .. Len(t) /\ Len(t) \in Nat
  BY DEF SchemaInv, SchemaIsSound
<1> HIDE DEF t
<1> DEFINE front == SubSeq(t, 1, d - 1)
           back == SubSeq(t, d + 1, Len(t))
<1>3. front \in Seq(SchemaColumns) /\ Len(front) = d - 1 /\ \A i \in 1 .. d - 1 : front[i] = t[i]
  BY <1>2
<1>4. back \in Seq(SchemaColumns) /\ Len(back) = Len(t) - d /\ \A i \in 1 .. Len(t) - d : back[i] = t[i + d]
  BY <1>2
<1>5. s = front \o back
  BY DEF RemoveAt
<1> HIDE DEF front, back, s
<1>6. /\ s \in Seq(SchemaColumns) /\ Len(s) = Len(t) - 1
      /\ \A i \in 1 .. Len(t) - 1 : s[i] = IF i <= d - 1 THEN front[i] ELSE back[i - (d - 1)]
  <2>1. s \in Seq(SchemaColumns) /\ Len(s) = Len(front) + Len(back)
        /\ \A i \in 1 .. Len(front) + Len(back) : s[i] = IF i <= Len(front) THEN front[i] ELSE back[i - Len(front)]
    BY <1>3, <1>4, <1>5, ConcatProperties
  <2>2. Len(front) + Len(back) = Len(t) - 1
    BY <1>2, <1>3, <1>4
  <2>3. QED
    BY <1>3, <2>1, <2>2
<1>7a. ASSUME NEW i \in DOMAIN s PROVE from[i] \in DOMAIN t /\ s[i] = t[from[i]]
  <2>1. i \in 1 .. Len(t) - 1 /\ Len(s) = Len(t) - 1 /\ DOMAIN t = 1 .. Len(t)
    BY <1>2, <1>6
  <2>2. CASE i <= d - 1
    <3>1. from[i] = i
      BY <1>2, <2>1, <2>2
    <3>2. i \in 1 .. d - 1 /\ s[i] = front[i]
      <4>1. s[i] = IF i <= d - 1 THEN front[i] ELSE back[i - (d - 1)]
        BY <1>6, <2>1
      <4>2. QED
        BY <1>2, <2>1, <2>2, <4>1
    <3>3. front[i] = t[i]
      BY <1>3, <3>2
    <3>4. QED
      BY <1>2, <2>1, <3>1, <3>2, <3>3
  <2>3. CASE ~(i <= d - 1)
    <3>1. from[i] = i + 1
      BY <1>2, <2>1, <2>3
    <3>2. i - (d - 1) \in 1 .. Len(t) - d /\ i - (d - 1) + d = i + 1
      BY <1>2, <2>1, <2>3
    <3>3. s[i] = back[i - (d - 1)]
      BY <1>6, <2>1, <2>3
    <3>4. back[i - (d - 1)] = t[i + 1]
      BY <1>4, <3>2
    <3>5. QED
      BY <1>2, <2>1, <3>1, <3>3, <3>4
  <2>4. QED
    BY <2>2, <2>3
<1>7. \A i, j \in DOMAIN s : from[i] = from[j] => i = j
  BY <1>2, <1>6
<1>8. from \in [DOMAIN s -> DOMAIN t]
  BY <1>7a
<1> HIDE DEF from
<1>9. SchemaIsSound(s, lastId) /\ FilesAreSound(files, s)
  BY <1>6, <1>7a, <1>7, <1>8, FewerColumns DEF t
<1>10. QED
  BY <1>1, <1>9, SchemaIsWritten DEF DropColumn, SchemaInv, s, t

\* A column that changes its name keeps its id.
LEMMA RenameColumnKeepsInv == ASSUME SchemaInv, ~Reuses, RenameColumn PROVE SchemaInv'
<1> DEFINE t == TableSchema
<1>1. PICK d \in DOMAIN t, name \in Names : ~Named(name) /\ name \notin Retired /\ Becomes([t EXCEPT ![d].name = name])
  BY DEF RenameColumn
<1> DEFINE s == [t EXCEPT ![d].name = name]
<1>2. t \in Seq(SchemaColumns) /\ (\A i \in DOMAIN t : t[i].name # name) /\ lastId \in Nat
  BY <1>1 DEF SchemaInv, SchemaIsSound, Named
<1> HIDE DEF t
<1>3. /\ s \in Seq(SchemaColumns) /\ DOMAIN s = DOMAIN t
      /\ s[d].name = name /\ s[d].id = t[d].id /\ \A i \in DOMAIN t \ {d} : s[i] = t[i]
  <2>1. \A i \in DOMAIN t : t[i] \in SchemaColumns
    BY <1>2
  <2> DEFINE c == [t[d] EXCEPT !.name = name]
  <2>2. c \in SchemaColumns /\ c.name = name /\ c.id = t[d].id
    BY <2>1 DEF SchemaColumns
  <2>3. s = [t EXCEPT ![d] = c]
    OBVIOUS
  <2> HIDE DEF c, s
  <2>4. s \in Seq(SchemaColumns) /\ DOMAIN s = DOMAIN t /\ s[d] = c /\ \A i \in DOMAIN t \ {d} : s[i] = t[i]
    BY <1>2, <2>2, <2>3
  <2>5. QED
    BY <2>2, <2>4
<1> HIDE DEF s
<1>4. SchemaIsSound(s, lastId)
  <2>1. SchemaIsSound(t, lastId)
    BY DEF SchemaInv, t
  <2>2. ASSUME NEW i \in DOMAIN t, NEW j \in DOMAIN t, s[i].name = s[j].name \/ s[i].id = s[j].id PROVE i = j
    <3>1. CASE i = d \/ j = d
      BY <1>2, <1>3, <2>1, <2>2, <3>1 DEF SchemaIsSound
    <3>2. CASE i # d /\ j # d
      BY <1>3, <2>1, <2>2, <3>2 DEF SchemaIsSound
    <3>3. QED
      BY <3>1, <3>2
  <2>3. ASSUME NEW i \in DOMAIN t PROVE s[i].id <= lastId
    BY <1>3, <2>1 DEF SchemaIsSound
  <2>4. QED
    BY <1>3, <2>2, <2>3 DEF SchemaIsSound
<1>5. FilesAreSound(files, s)
  <2>1. ASSUME NEW n \in DOMAIN files PROVE FileIsSound(files[n], s)
    <3>1. FileIsSound(files[n], t)
      BY DEF SchemaInv, FilesAreSound, t
    <3>2. \A i \in DOMAIN files[n].columns : files[n].columns[i].name # name
      BY <1>1, NewNameIsNew
    <3>3. QED
      BY <1>1, <1>3, <3>1, <3>2, SMTT(20) DEF FileIsSound
  <2>2. QED
    BY <2>1 DEF FilesAreSound
<1>6. QED
  BY <1>1, <1>2, <1>4, <1>5, SchemaIsWritten DEF RenameColumn, SchemaInv, s, t

LEMMA PromoteColumnKeepsInv == ASSUME SchemaInv, PromoteColumn PROVE SchemaInv'
<1> DEFINE t == TableSchema
<1>1. PICK d \in DOMAIN t : Becomes([t EXCEPT ![d].type = "long"])
  BY DEF PromoteColumn
<1> DEFINE s == [t EXCEPT ![d].type = "long"]
<1>2. t \in Seq(SchemaColumns) /\ lastId \in Nat
  BY DEF SchemaInv, SchemaIsSound
<1> HIDE DEF t
<1>3. /\ s \in Seq(SchemaColumns) /\ DOMAIN s = DOMAIN t
      /\ \A i \in DOMAIN t : s[i].name = t[i].name /\ s[i].id = t[i].id
  <2>1. \A i \in DOMAIN t : t[i] \in SchemaColumns
    BY <1>2
  <2> DEFINE c == [t[d] EXCEPT !.type = "long"]
  <2>2. c \in SchemaColumns /\ c.name = t[d].name /\ c.id = t[d].id
    BY <2>1 DEF SchemaColumns, Types
  <2>3. s = [t EXCEPT ![d] = c]
    OBVIOUS
  <2> HIDE DEF c, s
  <2>4. s \in Seq(SchemaColumns) /\ DOMAIN s = DOMAIN t /\ s[d] = c /\ \A i \in DOMAIN t \ {d} : s[i] = t[i]
    BY <1>2, <2>2, <2>3
  <2>5. QED
    BY <2>2, <2>4
<1> HIDE DEF s
<1>4. SchemaIsSound(s, lastId)
  BY <1>2, <1>3 DEF SchemaInv, SchemaIsSound, t
<1>5. FilesAreSound(files, s)
  <2>1. ASSUME NEW n \in DOMAIN files PROVE FileIsSound(files[n], s)
    <3>1. FileIsSound(files[n], t)
      BY DEF SchemaInv, FilesAreSound, t
    <3>2. QED
      BY <1>3, <3>1 DEF FileIsSound
  <2>2. QED
    BY <2>1 DEF FilesAreSound
<1>6. QED
  BY <1>1, <1>2, <1>4, <1>5, SchemaIsWritten DEF PromoteColumn, SchemaInv, s, t

LEMMA WriteFileKeepsInv == ASSUME SchemaInv, WriteFile PROVE SchemaInv'
<1>1. PICK ids \in BOOLEAN : files' = Append(files, [columns |-> TableSchema, ids |-> ids])
  BY DEF WriteFile
<1> DEFINE f == [columns |-> TableSchema, ids |-> ids]
<1>2. f \in SchemaFiles /\ files \in Seq(SchemaFiles)
  BY DEF SchemaInv, SchemaIsSound, SchemaFiles
<1>3. FileIsSound(f, TableSchema)
  BY DEF SchemaInv, SchemaIsSound, FileIsSound
<1>4. metadata' = metadata /\ lastId' = lastId /\ read' = read /\ TableSchema' = TableSchema
  BY DEF WriteFile, TableSchema, CurrentSchema
<1> HIDE DEF f
<1>5. files' \in Seq(SchemaFiles) /\ \A n \in DOMAIN files' : files'[n] = f \/ (n \in DOMAIN files /\ files'[n] = files[n])
  <2>1. files' = Append(files, f)
    BY <1>1 DEF f
  <2>2. QED
    BY <1>2, <2>1
<1>6. FilesAreSound(files, TableSchema)'
  <2>1. ASSUME NEW n \in DOMAIN files' PROVE FileIsSound(files'[n], TableSchema)
    BY <1>3, <1>5 DEF SchemaInv, FilesAreSound
  <2>2. FilesAreSound(files', TableSchema)
    BY <2>1 DEF FilesAreSound
  <2>3. QED
    BY <1>4, <2>2 DEF FilesAreSound, FileIsSound
<1>7. ColumnsKeepTheirValues'
  BY <1>4 DEF ColumnsKeepTheirValues, WriteFile, Quiet, Unread
<1>8. SchemaIsSound(TableSchema, lastId)'
  BY <1>4 DEF SchemaIsSound, SchemaInv
<1>9. QED
  BY <1>4, <1>5, <1>6, <1>7, <1>8 DEF SchemaInv

\* What a step that changes neither the table nor its files leaves true.
LEMMA SameTable ==
  ASSUME SchemaInv, metadata' = metadata, lastId' = lastId, files' = files, ColumnsKeepTheirValues'
  PROVE  SchemaInv'
<1>1. TableSchema' = TableSchema
  BY DEF TableSchema, CurrentSchema
<1>2. SchemaIsSound(TableSchema, lastId)' /\ FilesAreSound(files, TableSchema)'
  BY <1>1 DEF SchemaInv, SchemaIsSound, FilesAreSound, FileIsSound
<1>3. QED
  BY <1>1, <1>2 DEF SchemaInv

LEMMA ReadTableKeepsInv == ASSUME SchemaInv, ReadTable PROVE SchemaInv'
<1>1. metadata' = metadata /\ lastId' = lastId /\ files' = files /\ TableSchema' = TableSchema
  BY DEF ReadTable, TableSchema, CurrentSchema
<1>2. ColumnsKeepTheirValues'
  <2>1. CASE ~Resolved(TableSchema, files[1])
    BY <2>1 DEF ReadTable, ColumnsKeepTheirValues
  <2>2. CASE Resolved(TableSchema, files[1])
    <3>1. read' = [at |-> "answered", rows |-> [n \in DOMAIN files |-> ProjectBatch(TableSchema, files[n], n)]]
      BY <2>2 DEF ReadTable
    <3>2. ASSUME NEW n \in DOMAIN files, files[n].ids, NEW k \in DOMAIN TableSchema
          PROVE  read'.rows[n][k] = OwnValue(files[n], n, TableSchema[k])
      <4>1. read'.rows[n][k] = ProjectBatch(TableSchema, files[n], n)[k]
        BY <3>1
      <4>2. files[n] \in SchemaFiles /\ FileIsSound(files[n], TableSchema)
        BY DEF SchemaInv, FilesAreSound
      <4>3. QED
        BY <3>2, <4>1, <4>2, ProjectionIsOwn
    <3>3. QED
      BY <1>1, <3>2 DEF ColumnsKeepTheirValues
  <2>3. QED
    BY <2>1, <2>2
<1>3. QED
  BY <1>1, <1>2, SameTable

LEMMA SchemaInitInv == SchemaInit => SchemaInv
<1> SUFFICES ASSUME SchemaInit PROVE SchemaInv
  OBVIOUS
<1>1. PICK dialect \in Dialects, name \in Names, type \in Types :
        metadata = IF dialect = 1 THEN [schema |-> <<Column(1, name, type)>>, schemas |-> <<>>, current |-> 0]
                   ELSE [schema |-> None, schemas |-> <<<<Column(1, name, type)>>>>, current |-> 1]
  BY DEF SchemaInit
<1> DEFINE c == Column(1, name, type)
<1>2. c \in SchemaColumns /\ c.id = 1
  BY DEF Column, SchemaColumns
<1> HIDE DEF c
<1>3. <<c>> \in Seq(SchemaColumns) /\ <<<<c>>>> \in Seq(Seq(SchemaColumns)) /\ <<>> \in Seq(SchemaColumns) /\ <<>> \in Seq(Seq(SchemaColumns))
  BY <1>2
<1>4. /\ metadata \in [schema : Seq(SchemaColumns), schemas : Seq(Seq(SchemaColumns)), current : Nat]
      /\ metadata.schemas = <<>> \/ metadata.current = Len(metadata.schemas)
  BY <1>1, <1>3 DEF c, None
<1>5. TableSchema = <<c>>
  BY <1>1 DEF TableSchema, CurrentSchema, c, None
<1>6. lastId = 1 /\ files = <<>> /\ read = Unread
  BY DEF SchemaInit
<1>7. SchemaIsSound(TableSchema, lastId)
  BY <1>2, <1>3, <1>5, <1>6 DEF SchemaIsSound
<1>8. files \in Seq(SchemaFiles) /\ FilesAreSound(files, TableSchema)
  BY <1>6 DEF FilesAreSound
<1>9. ColumnsKeepTheirValues
  BY <1>6 DEF ColumnsKeepTheirValues, Unread
<1>10. QED
  BY <1>4, <1>6, <1>7, <1>8, <1>9 DEF SchemaInv

LEMMA SchemaStep == SchemaInv /\ ~Reuses /\ [SchemaNext]_schemaVars => SchemaInv'
<1> SUFFICES ASSUME SchemaInv, ~Reuses, [SchemaNext]_schemaVars PROVE SchemaInv'
  OBVIOUS
<1>1. CASE ForgetTable
  <2>1. ColumnsKeepTheirValues'
    BY <1>1 DEF ForgetTable, ColumnsKeepTheirValues, Unread
  <2>2. QED
    BY <1>1, <2>1, SameTable DEF ForgetTable
<1>2. CASE UNCHANGED schemaVars
  <2>1. metadata' = metadata /\ lastId' = lastId /\ files' = files /\ read' = read /\ TableSchema' = TableSchema
    BY <1>2 DEF schemaVars, TableSchema, CurrentSchema
  <2>2. ColumnsKeepTheirValues'
    BY <2>1 DEF SchemaInv, ColumnsKeepTheirValues
  <2>3. QED
    BY <2>1, <2>2, SameTable
<1>3. QED
  BY <1>1, <1>2, AddColumnKeepsInv, DropColumnKeepsInv, RenameColumnKeepsInv, PromoteColumnKeepsInv, WriteFileKeepsInv,
     ReadTableKeepsInv DEF SchemaNext

\* A column of an Iceberg table shows what was written to it, under whatever name and type,
\* and null in the rows of a file that is older than it, where no name of a column that
\* files have is given to another (target_schema and project_batch, iceberg.rs).
THEOREM ColumnsKeepTheirValuesAlways == ~Reuses /\ SchemaSpec => []ColumnsKeepTheirValues
<1>1. SchemaInit => SchemaInv
  BY SchemaInitInv
<1>2. SchemaInv /\ ~Reuses /\ [SchemaNext]_schemaVars => SchemaInv'
  BY SchemaStep
<1>3. SchemaInv => ColumnsKeepTheirValues
  BY DEF SchemaInv
<1>4. ASSUME ~Reuses PROVE SchemaInv /\ [SchemaNext]_schemaVars => SchemaInv'
  BY <1>2, <1>4
<1>5. ASSUME ~Reuses PROVE SchemaSpec => []ColumnsKeepTheirValues
  <2>1. SchemaInv /\ [SchemaNext]_schemaVars => SchemaInv'
    BY <1>4, <1>5
  <2>2. QED
    BY <1>1, <1>3, <2>1, PTL DEF SchemaSpec
<1>6. QED
  BY <1>5

-----------------------------------------------------------------------------
(***************************************************************************)
(* Iceberg snapshots.  A writer that lost a race leaves metadata of the    *)
(* version it raced for, never of a later one, so where files tie for the  *)
(* highest version the table's own is among them: files that agree on a    *)
(* snapshot agree with it.  Nothing a call does after it has chosen its    *)
(* metadata changes the choice, and versions only grow meanwhile.          *)
(***************************************************************************)
CallFields ==
  {"at", "ask", "since", "hinted", "names", "chosen", "todo", "plan", "full", "scan", "counted", "answer"}

\* What a call is at once its metadata has been chosen.
Later == {"open", "manifests", "planned", "reading", "read", "counting", "answered"}
MetadataFields == {"version", "tag", "snapshot", "transform", "specs"}
IsSequence(h) == \E S : h \in Seq(S)

\* The metadata directory: no version is newer than the head's, and neither the head nor the
\* hint names a snapshot that lost its race.
DirectoryIsSound ==
  /\ IsSequence(history)
  /\ head \in meta /\ ~Snapshot(head.snapshot).lost
  /\ \A m \in meta : /\ m.version \in Nat /\ m.version <= head.version
                     /\ m.snapshot \in 0 .. Len(history) /\ m.tag \in {-1, 0, 1} /\ DOMAIN m = MetadataFields
  /\ hint.version \in Nat /\ hint.version <= head.version
  /\ hint.snapshot \in 0 .. Len(history) /\ ~Snapshot(hint.snapshot).lost
  /\ hint = NoFile \/ table.hinted

\* A metadata file is no older than the call may read.
NewEnough(m) ==
  /\ m.version \in Nat /\ m.snapshot \in 0 .. Len(history)
  /\ m.version >= call.hinted.version /\ (~table.hinted => m.version >= call.since.version)
OfTheTable(m) == NewEnough(m) /\ ~Snapshot(m.snapshot).lost

\* The inductive invariant: where files tie, one of them is of the table, so that a call
\* that goes on because they agree has chosen one that is.
CallIsOfTheTable ==
  call # Absent =>
    /\ DOMAIN call = CallFields
    /\ call.since.version \in Nat /\ call.since.version <= head.version
    /\ call.hinted.version \in Nat /\ call.hinted.version <= hint.version
    /\ call.at = "named" => OfTheTable(call.chosen)
    /\ call.at = "compare" => /\ call.chosen \in call.names /\ \A m \in call.names : NewEnough(m)
                              /\ \E m \in call.names : OfTheTable(m)
    /\ call.at \in Later => OfTheTable(call.chosen)
IceInv == DirectoryIsSound /\ CallIsOfTheTable

-----------------------------------------------------------------------------
\* The writers.

\* A snapshot that is there stays as it is.
LEMMA SnapshotsStay ==
  ASSUME IsSequence(history), NEW s, history' = history \/ history' = Append(history, s)
  PROVE  /\ IsSequence(history)' /\ Len(history) \in Nat /\ Len(history') \in Nat /\ Len(history) <= Len(history')
         /\ \A i \in 0 .. Len(history) : Snapshot(i)' = Snapshot(i)
         /\ history' # history =>
              Len(history') = Len(history) + 1 /\ \A i \in Nat : i = Len(history) + 1 => Snapshot(i)' = s
<1>1. PICK S : history \in Seq(S)
  BY DEF IsSequence
<1>2. history \in Seq(S \cup {s}) /\ s \in S \cup {s}
  BY <1>1
<1>3. CASE history' = history
  <2>1. \A i \in 0 .. Len(history) : Snapshot(i)' = Snapshot(i)
    BY <1>3 DEF Snapshot
  <2>2. QED
    BY <1>1, <1>3, <2>1 DEF IsSequence
<1>4. CASE history' = Append(history, s)
  <2>1. /\ history' \in Seq(S \cup {s}) /\ Len(history') = Len(history) + 1 /\ Len(history) \in Nat
        /\ history'[Len(history) + 1] = s /\ \A i \in 1 .. Len(history) : history'[i] = history[i]
    BY <1>2, <1>4
  <2>2. ASSUME NEW i \in 0 .. Len(history) PROVE Snapshot(i)' = Snapshot(i)
    BY <2>1 DEF Snapshot
  <2>3. ASSUME NEW i \in Nat, i = Len(history) + 1 PROVE Snapshot(i)' = s
    BY <2>1, <2>3 DEF Snapshot
  <2>4. QED
    BY <2>1, <2>2, <2>3 DEF IsSequence
<1>5. QED
  BY <1>3, <1>4

\* What the table's own writers make has not lost.
LEMMA ChangesHaveNotLost == ASSUME NEW s \in Changes PROVE ~s.lost
<1>1. \A f : ~Appended(Base, Seqno, f, Tuple(f)).lost
  BY DEF Appended
<1>2. \A v, f : ~DeletedValue(Base, Seqno, v, f, Tuple(f)).lost
  BY DEF DeletedValue
<1>3. \A v, f : ~Upserted(Base, Seqno, v, f, Tuple(f)).lost
  BY DEF Upserted, DeletedValue
<1>4. \A f, i, format : ~DeletedPosition(Base, Seqno, f, i, format, Tuple(f)).lost
  BY DEF DeletedPosition
<1>5. \A f : ~Dropped(Base, Seqno, f).lost
  BY DEF Dropped
<1>6. CASE s \in Additions
  BY <1>1, <1>6 DEF Additions
<1>7. CASE s \in ValueDeletes
  BY <1>2, <1>7 DEF ValueDeletes
<1>8. CASE s \in Upserts
  BY <1>3, <1>8 DEF Upserts
<1>9. CASE s \in UNION {PositionDeletes(f) : f \in Here}
  <2>1. PICK f \in Here : s \in PositionDeletes(f)
    BY <1>9
  <2>2. QED
    BY <1>4, <2>1 DEF PositionDeletes
<1>10. CASE s \in Drops
  BY <1>5, <1>10 DEF Drops
<1>11. s \in Additions \cup ValueDeletes \cup Upserts \cup (UNION {PositionDeletes(f) : f \in Here}) \cup Drops
  BY DEF Changes
<1>12. QED
  BY <1>6, <1>7, <1>8, <1>9, <1>10, <1>11

\* Versions only grow, and snapshots are only added.
Grows ==
  /\ table' = table /\ call' = call
  /\ \E s : history' = history \/ history' = Append(history, s)
  /\ head'.version \in Nat /\ head'.version >= head.version
  /\ hint'.version \in Nat /\ hint'.version >= hint.version

LEMMA GrowthKeepsCall ==
  ASSUME IceInv, Grows
  PROVE  CallIsOfTheTable'
<1>1. PICK s : history' = history \/ history' = Append(history, s)
  BY DEF Grows
<1>2. /\ Len(history) \in Nat /\ Len(history') \in Nat /\ Len(history) <= Len(history')
      /\ \A i \in 0 .. Len(history) : Snapshot(i)' = Snapshot(i)
  BY <1>1, SnapshotsStay DEF IceInv, DirectoryIsSound
<1>3. call' = call /\ table' = table
  BY DEF Grows
<1>4. ASSUME NEW m, NewEnough(m) PROVE NewEnough(m)'
  BY <1>2, <1>3, <1>4 DEF NewEnough
<1>5. ASSUME NEW m, OfTheTable(m) PROVE OfTheTable(m)'
  BY <1>2, <1>3, <1>4, <1>5 DEF OfTheTable, NewEnough
<1>6. head.version \in Nat /\ hint.version \in Nat
  BY DEF IceInv, DirectoryIsSound
<1>7. QED
  BY <1>3, <1>4, <1>5, <1>6 DEF IceInv, CallIsOfTheTable, Grows

LEMMA CommitKeepsInv == ASSUME IceInv, CommitSnapshot PROVE IceInv'
<1>1. PICK s \in Changes :
        LET new == MetadataFile(head.version + 1, 0, Seqno, head.transform, head.specs)
        IN history' = Append(history, s) /\ head' = new /\ meta' = meta \cup {new}
  BY DEF CommitSnapshot
<1>2. head' \in meta' /\ meta' = meta \cup {head'} /\ head'.version = head.version + 1 /\ head'.tag = 0
      /\ head'.snapshot = Len(history) + 1 /\ DOMAIN head' = MetadataFields
  BY <1>1 DEF MetadataFile, Seqno, MetadataFields
<1>3. table' = table /\ hint' = hint /\ call' = call
  BY DEF CommitSnapshot
<1>4. head.version \in Nat /\ hint.version \in Nat
  BY DEF IceInv, DirectoryIsSound
<1>5. PICK S : history \in Seq(S)
  BY DEF IceInv, DirectoryIsSound, IsSequence
<1>6. Len(history) \in Nat /\ Len(history') = Len(history) + 1
  BY <1>1, <1>5
<1>7. history' # history
  BY <1>6
<1>8. /\ IsSequence(history)' /\ (\A i \in 0 .. Len(history) : Snapshot(i)' = Snapshot(i))
      /\ \A i \in Nat : i = Len(history) + 1 => Snapshot(i)' = s
  BY <1>1, <1>7, SnapshotsStay DEF IceInv, DirectoryIsSound
<1>9. ~Snapshot(head.snapshot)'.lost /\ ~Snapshot(hint.snapshot)'.lost
  <2>1. hint.snapshot \in 0 .. Len(history) /\ ~Snapshot(hint.snapshot).lost
    BY DEF IceInv, DirectoryIsSound
  <2>2. ~s.lost
    BY ChangesHaveNotLost
  <2>3. head'.snapshot \in Nat
    BY <1>2, <1>6
  <2>4. QED
    BY <1>2, <1>3, <1>8, <2>1, <2>2, <2>3
<1>10. DirectoryIsSound'
  BY <1>2, <1>3, <1>4, <1>6, <1>8, <1>9 DEF IceInv, DirectoryIsSound
<1>11. Grows
  BY <1>1, <1>2, <1>3, <1>4 DEF Grows
<1>12. QED
  BY <1>10, <1>11, GrowthKeepsCall DEF IceInv

LEMMA LoseKeepsInv == ASSUME IceInv, Lose PROVE IceInv'
<1>1. PICK s \in Additions \cup {Base}, tag \in {-1, 1} :
        LET i == IF s = Base THEN head.snapshot ELSE Seqno
        IN /\ history' = IF s = Base THEN history ELSE Append(history, [s EXCEPT !.lost = TRUE])
           /\ meta' = meta \cup {[head EXCEPT !.tag = tag, !.snapshot = i]}
  BY DEF Lose
<1>2. table' = table /\ head' = head /\ hint' = hint /\ call' = call
  BY DEF Lose
<1> DEFINE m == [head EXCEPT !.tag = tag, !.snapshot = IF s = Base THEN head.snapshot ELSE Seqno]
<1>3. PICK more : history' = history \/ history' = Append(history, more)
  BY <1>1
<1>4. /\ IsSequence(history)' /\ Len(history) \in Nat /\ Len(history') \in Nat /\ Len(history) <= Len(history')
      /\ (\A i \in 0 .. Len(history) : Snapshot(i)' = Snapshot(i))
      /\ (history' # history => Len(history') = Len(history) + 1)
  BY <1>3, SnapshotsStay DEF IceInv, DirectoryIsSound
<1>5. m.version = head.version /\ m.tag \in {-1, 0, 1} /\ m.snapshot = IF s = Base THEN head.snapshot ELSE Seqno
  OBVIOUS
<1>6. meta' = meta \cup {m} /\ (s # Base => Seqno = Len(history) + 1 /\ history' # history)
  <2>1. meta' = meta \cup {m}
    BY <1>1
  <2>2. ASSUME s # Base PROVE history' # history
    <3>1. PICK S : history \in Seq(S)
      BY DEF IceInv, DirectoryIsSound, IsSequence
    <3>2. history' = Append(history, [s EXCEPT !.lost = TRUE])
      BY <1>1, <2>2
    <3>3. history \in Seq(S \cup {[s EXCEPT !.lost = TRUE]})
      BY <3>1
    <3>4. Len(history') = Len(history) + 1
      BY <3>2, <3>3
    <3>5. QED
      BY <1>4, <3>4
  <2>3. QED
    BY <2>1, <2>2 DEF Seqno
<1>7. m.snapshot \in 0 .. Len(history') /\ DOMAIN m = DOMAIN head
  <2>1. head.snapshot \in 0 .. Len(history)
    BY DEF IceInv, DirectoryIsSound
  <2>2. QED
    BY <1>4, <1>5, <1>6, <2>1
<1> HIDE DEF m
<1>8. DirectoryIsSound'
  <2>1. head \in meta' /\ hint.snapshot \in 0 .. Len(history') /\ \A n \in meta : n.snapshot \in 0 .. Len(history')
    BY <1>4, <1>6 DEF IceInv, DirectoryIsSound
  <2>2. ~Snapshot(head.snapshot)'.lost /\ ~Snapshot(hint.snapshot)'.lost
    BY <1>2, <1>4 DEF IceInv, DirectoryIsSound
  <2>3. QED
    BY <1>2, <1>4, <1>5, <1>6, <1>7, <2>1, <2>2 DEF IceInv, DirectoryIsSound
<1>9. Grows
  BY <1>2, <1>3 DEF Grows, IceInv, DirectoryIsSound
<1>10. QED
  BY <1>8, <1>9, GrowthKeepsCall DEF IceInv

LEMMA OtherWritesKeepInv == ASSUME IceInv, EvolveSpec \/ WriteHint \/ Expire PROVE IceInv'
<1>1. table' = table /\ history' = history /\ call' = call
  BY DEF EvolveSpec, WriteHint, Expire
<1>2. \A i : Snapshot(i)' = Snapshot(i)
  BY <1>1 DEF Snapshot
<1>3. IsSequence(history)'
  BY <1>1 DEF IceInv, DirectoryIsSound, IsSequence
<1>4. CASE EvolveSpec
  <2>1. /\ head' = [version |-> head.version + 1, tag |-> 0, snapshot |-> head.snapshot, transform |-> table.last,
                    specs |-> 2]
        /\ meta' = meta \cup {head'} /\ hint' = hint
    BY <1>4 DEF EvolveSpec, MetadataFile
  <2>2. head.version \in Nat /\ head.snapshot \in 0 .. Len(history) /\ ~Snapshot(head.snapshot).lost
    BY DEF IceInv, DirectoryIsSound
  <2>3. /\ head'.version = head.version + 1 /\ head'.snapshot = head.snapshot /\ head'.tag = 0
        /\ DOMAIN head' = MetadataFields
    BY <2>1 DEF MetadataFields
  <2>4. ~Snapshot(head.snapshot)'.lost /\ ~Snapshot(hint.snapshot)'.lost
    BY <1>2, <2>1, <2>2, <2>3 DEF IceInv, DirectoryIsSound
  <2>5. DirectoryIsSound'
    <3>1. \A m \in meta' : /\ m.version \in Nat /\ m.version <= head'.version
                           /\ m.snapshot \in 0 .. Len(history) /\ m.tag \in {-1, 0, 1} /\ DOMAIN m = MetadataFields
      <4>1. ASSUME NEW m \in meta
            PROVE  /\ m.version \in Nat /\ m.version <= head'.version
                   /\ m.snapshot \in 0 .. Len(history) /\ m.tag \in {-1, 0, 1} /\ DOMAIN m = MetadataFields
        BY <2>2, <2>3 DEF IceInv, DirectoryIsSound
      <4>2. /\ head'.version \in Nat /\ head'.version <= head'.version
            /\ head'.snapshot \in 0 .. Len(history) /\ head'.tag \in {-1, 0, 1} /\ DOMAIN head' = MetadataFields
        BY <2>2, <2>3
      <4>3. QED
        BY <2>1, <4>1, <4>2
    <3>2. hint.version \in Nat /\ hint.version <= head'.version /\ head' \in meta'
      BY <2>1, <2>2, <2>3 DEF IceInv, DirectoryIsSound
    <3>3. QED
      BY <1>1, <1>3, <2>1, <2>4, <3>1, <3>2 DEF IceInv, DirectoryIsSound
  <2>6. Grows
    BY <1>1, <2>1, <2>2, <2>3 DEF Grows, IceInv, DirectoryIsSound
  <2>7. QED
    BY <2>5, <2>6, GrowthKeepsCall DEF IceInv
<1>5. CASE WriteHint
  <2>1. hint' = head /\ head' = head /\ meta' = meta /\ table.hinted
    BY <1>5 DEF WriteHint
  <2>2. DirectoryIsSound'
    BY <1>1, <1>2, <1>3, <2>1 DEF IceInv, DirectoryIsSound
  <2>3. Grows
    BY <1>1, <2>1 DEF Grows, IceInv, DirectoryIsSound
  <2>4. QED
    BY <2>2, <2>3, GrowthKeepsCall DEF IceInv
<1>6. CASE Expire
  <2>1. head' = head /\ hint' = hint /\ meta' \subseteq meta /\ head \in meta'
    BY <1>6 DEF Expire, IceInv, DirectoryIsSound
  <2>2. DirectoryIsSound'
    BY <1>1, <1>2, <1>3, <2>1 DEF IceInv, DirectoryIsSound
  <2>3. Grows
    BY <1>1, <2>1 DEF Grows, IceInv, DirectoryIsSound
  <2>4. QED
    BY <2>2, <2>3, GrowthKeepsCall DEF IceInv
<1>7. QED
  BY <1>4, <1>5, <1>6

-----------------------------------------------------------------------------
\* The reader.

\* What a step of the reader leaves true of the directory.
LEMMA ReaderKeepsInv == ASSUME IceInv, UNCHANGED tableVars, CallIsOfTheTable' PROVE IceInv'
<1>1. table' = table /\ history' = history /\ head' = head /\ meta' = meta /\ hint' = hint
  BY DEF tableVars
<1>2. \A i : Snapshot(i)' = Snapshot(i)
  BY <1>1 DEF Snapshot
<1>3. QED
  BY <1>1, <1>2 DEF IceInv, DirectoryIsSound, IsSequence

\* A call that goes on with the metadata it has chosen, starts again, or ends.
GoesOn ==
  /\ call # Absent /\ UNCHANGED tableVars /\ call' # Absent /\ DOMAIN call' = DOMAIN call
  /\ call'.since = call.since /\ call'.hinted = call.hinted
  /\ \/ call'.at \in {"hint", "list", "refused", "failed"}
     \/ call.at \in Later /\ call'.at \in Later /\ call'.chosen = call.chosen

LEMMA GoingOnKeepsInv == ASSUME IceInv, GoesOn PROVE IceInv'
<1>1. table' = table /\ history' = history /\ head' = head /\ hint' = hint
  BY DEF GoesOn, tableVars
<1>2. \A i : Snapshot(i)' = Snapshot(i)
  BY <1>1 DEF Snapshot
<1>3. \A m : OfTheTable(m) => OfTheTable(m)'
  BY <1>1, <1>2 DEF GoesOn, OfTheTable, NewEnough
<1>4. CallIsOfTheTable'
  BY <1>1, <1>3 DEF GoesOn, IceInv, CallIsOfTheTable, Later
<1>5. QED
  BY <1>4, ReaderKeepsInv DEF GoesOn

LEMMA StartKeepsInv == ASSUME IceInv, NEW ask, StartRead(ask) PROVE IceInv'
<1>1. /\ UNCHANGED tableVars /\ call'.at = "hint" /\ call'.since = head /\ call'.hinted = hint
      /\ DOMAIN call' = CallFields
  BY DEF StartRead, CallFields
<1>2. /\ head.version \in Nat /\ hint.version \in Nat
      /\ head' = head /\ hint' = hint /\ call'.since.version <= head'.version /\ call'.hinted.version <= hint'.version
  BY <1>1 DEF IceInv, DirectoryIsSound, tableVars
<1>3. CallIsOfTheTable'
  BY <1>1, <1>2 DEF CallIsOfTheTable, Later
<1>4. QED
  BY <1>1, <1>3, ReaderKeepsInv

\* The reader keeps what it knew when it started.
SameCall == /\ call # Absent /\ call' # Absent /\ DOMAIN call' = DOMAIN call /\ UNCHANGED tableVars
            /\ call'.since = call.since /\ call'.hinted = call.hinted

LEMMA SameCallStays ==
  ASSUME IceInv, SameCall
  PROVE  /\ DOMAIN call' = CallFields /\ table' = table /\ history' = history /\ head' = head /\ hint' = hint
         /\ call'.since.version \in Nat /\ call'.since.version <= head'.version
         /\ call'.hinted.version \in Nat /\ call'.hinted.version <= hint'.version
         /\ \A m : NewEnough(m)' = NewEnough(m) /\ OfTheTable(m)' = OfTheTable(m)
<1>1. table' = table /\ history' = history /\ head' = head /\ hint' = hint
  BY DEF SameCall, tableVars
<1>2. QED
  BY <1>1 DEF SameCall, IceInv, CallIsOfTheTable, NewEnough, OfTheTable, Snapshot

LEMMA FindHintKeepsInv == ASSUME IceInv, FindHint PROVE IceInv'
<1>1. call # Absent /\ DOMAIN call = CallFields /\ UNCHANGED tableVars
      /\ call' = [call EXCEPT !.at = IF hint = NoFile THEN "list" ELSE "named", !.chosen = hint]
  BY DEF FindHint, IceInv, CallIsOfTheTable
<1>2. /\ call'.at = (IF hint = NoFile THEN "list" ELSE "named") /\ call'.chosen = hint /\ DOMAIN call' = CallFields
      /\ call'.since = call.since /\ call'.hinted = call.hinted
  BY <1>1 DEF CallFields
<1>3. SameCall
  BY <1>1, <1>2 DEF SameCall, Absent, CallFields
<1>4. hint # NoFile => OfTheTable(hint)
  BY <1>1 DEF IceInv, DirectoryIsSound, CallIsOfTheTable, OfTheTable, NewEnough
<1>5. CallIsOfTheTable'
  BY <1>2, <1>3, <1>4, SameCallStays DEF CallIsOfTheTable, Later
<1>6. QED
  BY <1>1, <1>5, ReaderKeepsInv

LEMMA FindNamedKeepsInv == ASSUME IceInv, FindNamed PROVE IceInv'
<1>1. call # Absent /\ DOMAIN call = CallFields /\ UNCHANGED tableVars /\ call.at = "named" /\ OfTheTable(call.chosen)
      /\ call' = [call EXCEPT !.at = IF call.chosen \in meta THEN "open" ELSE "list"]
  BY DEF FindNamed, IceInv, CallIsOfTheTable
<1>2. /\ call'.at \in {"open", "list"} /\ call'.chosen = call.chosen /\ DOMAIN call' = CallFields
      /\ call'.since = call.since /\ call'.hinted = call.hinted
  BY <1>1 DEF CallFields
<1>3. SameCall
  BY <1>1, <1>2 DEF SameCall, Absent, CallFields
<1>4. CallIsOfTheTable'
  BY <1>1, <1>2, <1>3, SameCallStays DEF CallIsOfTheTable, Later
<1>5. QED
  BY <1>1, <1>4, ReaderKeepsInv

\* Of files that have one version, one has the greatest name.
LEMMA GreatestTag ==
  ASSUME NEW top, top # {}, \A m \in top : m.tag \in {-1, 0, 1}
  PROVE  \E m \in top : \A n \in top : n.tag <= m.tag
<1>1. CASE \E m \in top : m.tag = 1
  BY <1>1
<1>2. CASE (\A m \in top : m.tag # 1) /\ \E m \in top : m.tag = 0
  BY <1>2
<1>3. CASE \A m \in top : m.tag = -1
  BY <1>3
<1>4. QED
  BY <1>1, <1>2, <1>3

LEMMA ListMetadataKeepsInv == ASSUME IceInv, ListMetadata PROVE IceInv'
<1> DEFINE top == {m \in meta : \A n \in meta : n.version <= m.version}
           chosen == CHOOSE m \in top : \A n \in top : n.tag <= m.tag
<1>1. call # Absent /\ DOMAIN call = CallFields /\ UNCHANGED tableVars
      /\ call' = [call EXCEPT !.at = "compare", !.names = top, !.chosen = chosen]
  BY DEF ListMetadata, IceInv, CallIsOfTheTable
<1>2. head \in top /\ \A m \in top : m \in meta /\ m.version = head.version
  BY DEF IceInv, DirectoryIsSound
<1>3. \A m \in top : m.tag \in {-1, 0, 1} /\ NewEnough(m)
  <2>1. ASSUME NEW m \in top PROVE m.tag \in {-1, 0, 1} /\ NewEnough(m)
    BY <1>1, <1>2 DEF IceInv, DirectoryIsSound, CallIsOfTheTable, NewEnough
  <2>2. QED
    BY <2>1
<1>4. OfTheTable(head)
  BY <1>2, <1>3 DEF OfTheTable, IceInv, DirectoryIsSound
<1> HIDE DEF top
<1>5. chosen \in top
  BY <1>2, <1>3, GreatestTag
<1> HIDE DEF chosen
<1>6. /\ call'.at = "compare" /\ call'.names = top /\ call'.chosen = chosen /\ DOMAIN call' = CallFields
      /\ call'.since = call.since /\ call'.hinted = call.hinted
  BY <1>1 DEF CallFields
<1>7. SameCall
  BY <1>1, <1>6 DEF SameCall, Absent, CallFields
<1>8. CallIsOfTheTable'
  BY <1>2, <1>3, <1>4, <1>5, <1>6, <1>7, SameCallStays DEF CallIsOfTheTable, Later
<1>9. QED
  BY <1>1, <1>8, ReaderKeepsInv

LEMMA CompareTiedKeepsInv == ASSUME IceInv, CompareTied PROVE IceInv'
<1>1. /\ call # Absent /\ DOMAIN call = CallFields /\ UNCHANGED tableVars /\ call.at = "compare"
      /\ call.chosen \in call.names /\ \A m \in call.names : NewEnough(m)
  BY DEF CompareTied, IceInv, CallIsOfTheTable
<1>2. PICK m \in call.names : OfTheTable(m)
  BY <1>1 DEF IceInv, CallIsOfTheTable
<1>3. \/ call' = [call EXCEPT !.at = "failed"] \/ call' = [call EXCEPT !.at = "refused"]
      \/ call' = [call EXCEPT !.at = "open"] /\ m.snapshot = call.chosen.snapshot
  BY DEF CompareTied, Fails, Refuses
<1>4. /\ call'.at \in {"open", "failed", "refused"} /\ call'.chosen = call.chosen /\ DOMAIN call' = CallFields
      /\ call'.since = call.since /\ call'.hinted = call.hinted
      /\ call'.at = "open" => m.snapshot = call.chosen.snapshot
  BY <1>1, <1>3 DEF CallFields
<1>5. call'.at = "open" => OfTheTable(call.chosen)
  BY <1>1, <1>2, <1>4 DEF OfTheTable
<1>6. SameCall
  BY <1>1, <1>4 DEF SameCall, Absent, CallFields
<1>7. CallIsOfTheTable'
  BY <1>4, <1>5, <1>6, SameCallStays DEF CallIsOfTheTable, Later
<1>8. QED
  BY <1>1, <1>7, ReaderKeepsInv

\* The steps that follow keep what was chosen and what the call knew.
LEMMA OpenKeepsInv == ASSUME IceInv, Open PROVE IceInv'
<1>1. /\ call # Absent /\ DOMAIN call = CallFields /\ UNCHANGED tableVars /\ call.at = "open"
  BY DEF Open, IceInv, CallIsOfTheTable
<1>2. \/ call' = [call EXCEPT !.at = "failed"]
      \/ call' = [call EXCEPT !.at = "manifests", !.todo = Snapshot(call.chosen.snapshot).manifests,
                              !.plan.transform = call.chosen.transform, !.plan.single = call.chosen.specs <= 1]
  BY DEF Open, Fails
<1>3. /\ call'.at \in {"failed", "manifests"} /\ call'.chosen = call.chosen /\ DOMAIN call' = CallFields
      /\ call'.since = call.since /\ call'.hinted = call.hinted
  BY <1>1, <1>2 DEF CallFields
<1>4. GoesOn
  BY <1>1, <1>3 DEF GoesOn, Later, Absent, CallFields
<1>5. QED
  BY <1>4, GoingOnKeepsInv

LEMMA ReadManifestKeepsInv == ASSUME IceInv, ReadManifest PROVE IceInv'
<1>1. /\ call # Absent /\ DOMAIN call = CallFields /\ UNCHANGED tableVars /\ call.at = "manifests"
  BY DEF ReadManifest, IceInv, CallIsOfTheTable
<1>2. \/ call' = [call EXCEPT !.at = "failed"]
      \/ \E p : call' = [call EXCEPT !.todo = Tail(call.todo), !.plan = p]
  BY DEF ReadManifest, Fails
<1>3. /\ call'.at \in {"failed", "manifests"} /\ call'.chosen = call.chosen /\ DOMAIN call' = CallFields
      /\ call'.since = call.since /\ call'.hinted = call.hinted
  BY <1>1, <1>2 DEF CallFields
<1>4. GoesOn
  BY <1>1, <1>3 DEF GoesOn, Later, Absent, CallFields
<1>5. QED
  BY <1>4, GoingOnKeepsInv

LEMMA ReadDeletesKeepsInv == ASSUME IceInv, ReadDeletes PROVE IceInv'
<1>1. /\ call # Absent /\ DOMAIN call = CallFields /\ UNCHANGED tableVars /\ call.at = "manifests"
  BY DEF ReadDeletes, IceInv, CallIsOfTheTable
<1>2. \/ call' = [call EXCEPT !.at = "failed"] \/ call' = [call EXCEPT !.at = "refused"]
      \/ \E data, equality : call' = [call EXCEPT !.at = "planned", !.full = data, !.plan.data = data,
                                                  !.plan.equality = equality]
  BY DEF ReadDeletes, Fails, Refuses
<1>3. /\ call'.at \in {"failed", "refused", "planned"} /\ call'.chosen = call.chosen /\ DOMAIN call' = CallFields
      /\ call'.since = call.since /\ call'.hinted = call.hinted
  BY <1>1, <1>2 DEF CallFields
<1>4. GoesOn
  BY <1>1, <1>3 DEF GoesOn, Later, Absent, CallFields
<1>5. QED
  BY <1>4, GoingOnKeepsInv

LEMMA BeginKeepsInv == ASSUME IceInv, Begin PROVE IceInv'
<1>1. /\ call # Absent /\ DOMAIN call = CallFields /\ UNCHANGED tableVars /\ call.at = "planned"
  BY DEF Begin, IceInv, CallIsOfTheTable
<1>2. \/ call' = [call EXCEPT !.at = "failed"] \/ call' = [call EXCEPT !.at = "refused"]
      \/ call' = [call EXCEPT !.at = "counting"]
      \/ \E scan : call' = [call EXCEPT !.at = "reading", !.scan = scan]
      \/ \E answer : call' = [call EXCEPT !.at = "answered", !.answer = answer]
      \/ \E kept, scan : call' = [call EXCEPT !.at = "reading", !.plan.data = kept, !.scan = scan]
  BY DEF Begin, Fails, Refuses, Answer
<1>3. /\ call'.at \in {"failed", "refused", "counting", "reading", "answered"}
      /\ call'.chosen = call.chosen /\ DOMAIN call' = CallFields
      /\ call'.since = call.since /\ call'.hinted = call.hinted
  BY <1>1, <1>2 DEF CallFields
<1>4. GoesOn
  BY <1>1, <1>3 DEF GoesOn, Later, Absent, CallFields
<1>5. QED
  BY <1>4, GoingOnKeepsInv

LEMMA ReadingKeepsInv == ASSUME IceInv, ReadPlain \/ ReadDeleting \/ NothingLeft PROVE IceInv'
<1>1. /\ call # Absent /\ DOMAIN call = CallFields /\ UNCHANGED tableVars /\ call.at = "reading"
  BY DEF ReadPlain, ReadDeleting, NothingLeft, Reading, IceInv, CallIsOfTheTable
<1> DEFINE Reads == \/ call' = [call EXCEPT !.at = "failed"] \/ call' = [call EXCEPT !.at = "refused"]
                    \/ \E scan : call' = [call EXCEPT !.scan = scan]
                    \/ \E scan : call' = [call EXCEPT !.at = "read", !.scan = scan]
<1>2. ASSUME ReadPlain PROVE Reads
  BY <1>2 DEF ReadPlain, Fails, ReadOn, AllRead
<1>3. ASSUME ReadDeleting PROVE Reads
  BY <1>3 DEF ReadDeleting, Fails, ReadOn, AllRead
<1>4. ASSUME NothingLeft PROVE Reads
  BY <1>4 DEF NothingLeft, Refuses, AllRead
<1>5. Reads
  BY <1>2, <1>3, <1>4
<1>6. /\ call'.at \in {"failed", "refused", "reading", "read"} /\ call'.chosen = call.chosen
      /\ DOMAIN call' = CallFields /\ call'.since = call.since /\ call'.hinted = call.hinted
  BY <1>1, <1>5 DEF CallFields
<1>7. GoesOn
  BY <1>1, <1>6 DEF GoesOn, Later, Absent, CallFields
<1>8. QED
  BY <1>7, GoingOnKeepsInv

LEMMA AnsweringKeepsInv ==
  ASSUME IceInv, CountRows \/ AnswerRows \/ AnswerScan \/ AnswerStats
  PROVE  IceInv'
<1>1. /\ call # Absent /\ DOMAIN call = CallFields /\ UNCHANGED tableVars /\ call.at \in {"read", "counting"}
  BY DEF CountRows, AnswerRows, AnswerScan, AnswerStats, IceInv, CallIsOfTheTable
<1> DEFINE Answers == \/ call' = [call EXCEPT !.at = "failed"]
                      \/ \E answer : call' = [call EXCEPT !.at = "answered", !.answer = answer]
                      \/ \E n, known : call' = [call EXCEPT !.at = "hint", !.counted = TRUE, !.plan = EmptyPlan,
                                                            !.answer.matched = n, !.answer.known = known]
<1>2. ASSUME CountRows PROVE Answers
  BY <1>2 DEF CountRows, Fails, Answer
<1>3. ASSUME AnswerRows PROVE Answers
  BY <1>3 DEF AnswerRows, Answer
<1>4. ASSUME AnswerScan PROVE Answers
  BY <1>4 DEF AnswerScan, Answer
<1>5. ASSUME AnswerStats PROVE Answers
  BY <1>5 DEF AnswerStats, Answer
<1>6. Answers
  BY <1>2, <1>3, <1>4, <1>5
<1>7. /\ call'.at \in {"failed", "answered", "hint"} /\ call'.chosen = call.chosen
      /\ DOMAIN call' = CallFields /\ call'.since = call.since /\ call'.hinted = call.hinted
  BY <1>1, <1>6 DEF CallFields
<1>8. GoesOn
  BY <1>1, <1>7 DEF GoesOn, Later, Absent, CallFields
<1>9. QED
  BY <1>8, GoingOnKeepsInv

-----------------------------------------------------------------------------
\* A table of one snapshot, or of two: neither has lost, and its head names the last.
LEMMA IceInitHolds == ASSUME ScanInit PROVE IceInv
<1>1. PICK t \in FirstTables :
        LET tuple(f) == PartitionTuple(t.transform, t.kind, f)
            one == Appended(Empty, 1, t.file, tuple(t.file))
        IN /\ table = [kind |-> t.kind, grows |-> t.grows, hinted |-> t.hinted, last |-> t.last]
           /\ history = <<one>> \o (IF t.upserts = {} THEN <<>>
                                   ELSE <<Upserted(one, 2, Cells(t.file)[1], CHOOSE f \in t.upserts : TRUE,
                                                   tuple(t.file))>>)
           /\ head = MetadataFile(Len(history), 0, Len(history), t.transform, 1)
           /\ meta = {head}
           /\ hint = (IF t.hinted THEN head ELSE NoFile)
           /\ expired = {}
           /\ call = Absent
  BY Zenon DEF ScanInit, TableInit
<1>2. PICK one, two : /\ ~one.lost /\ ~two.lost
                      /\ history = <<one>> \/ history = Append(<<one>>, two)
  <2> DEFINE tuple(f) == PartitionTuple(t.transform, t.kind, f)
             one == Appended(Empty, 1, t.file, tuple(t.file))
             two == Upserted(one, 2, Cells(t.file)[1], CHOOSE f \in t.upserts : TRUE, tuple(t.file))
  <2>1. ~one.lost
    BY DEF Appended
  <2>2. ~two.lost
    BY DEF Upserted, DeletedValue
  <2>3. history = <<one>> \o (IF t.upserts = {} THEN <<>> ELSE <<two>>)
    BY <1>1
  <2> HIDE DEF one, two
  <2>4. history = <<one>> \/ history = Append(<<one>>, two)
    <3>1. <<one>> \o <<>> = <<one>>
      BY <<one>> \in Seq({one, two})
    <3>2. <<one>> \o <<two>> = Append(<<one>>, two)
      <4>1. <<one>> \in Seq({one, two})
        OBVIOUS
      <4>2. QED
        BY <4>1, AppendIsConcat
    <3>3. QED
      BY <2>3, <3>1, <3>2
  <2>5. QED
    BY <2>1, <2>2, <2>4
<1>3. /\ IsSequence(history) /\ Len(history) \in {1, 2}
      /\ \A i \in 0 .. Len(history) : ~Snapshot(i).lost
  <2>1. history \in Seq({one, two}) /\ Len(history) \in {1, 2}
    <3>1. <<one>> \in Seq({one, two}) /\ Append(<<one>>, two) \in Seq({one, two})
      OBVIOUS
    <3>2. Len(<<one>>) = 1 /\ Len(Append(<<one>>, two)) = 2
      OBVIOUS
    <3>3. QED
      BY <1>2, <3>1, <3>2
  <2>2. ASSUME NEW i \in 0 .. Len(history) PROVE ~Snapshot(i).lost
    BY <1>2, <2>1 DEF Snapshot, Empty
  <2>3. QED
    BY <2>1, <2>2 DEF IsSequence
<1>4. /\ head = [version |-> Len(history), tag |-> 0, snapshot |-> Len(history), transform |-> t.transform,
                 specs |-> 1]
      /\ NoFile = [version |-> 0, tag |-> 0, snapshot |-> 0, transform |-> "none", specs |-> 0]
  BY <1>1 DEF MetadataFile, NoFile
<1>5. head.version = Len(history) /\ head.snapshot = Len(history) /\ head.tag = 0 /\ DOMAIN head = MetadataFields
  BY <1>4 DEF MetadataFields
<1>6. (hint = head /\ table.hinted) \/ hint = NoFile
  BY <1>1
<1>7. hint.version \in 0 .. Len(history) /\ hint.snapshot \in 0 .. Len(history)
  BY <1>3, <1>4, <1>5, <1>6
<1>8. DirectoryIsSound
  BY <1>1, <1>3, <1>5, <1>6, <1>7 DEF DirectoryIsSound
<1>9. QED
  BY <1>1, <1>8 DEF IceInv, CallIsOfTheTable

LEMMA IceStepKeepsInv == ASSUME IceInv, ScanNext PROVE IceInv'
<1>1. CASE Write
  BY <1>1, CommitKeepsInv, LoseKeepsInv, OtherWritesKeepInv DEF Write
<1>2. CASE \E a \in Asks[table.kind] : StartRead(a)
  BY <1>2, StartKeepsInv
<1>3. CASE PlanSteps
  BY <1>3, FindHintKeepsInv, FindNamedKeepsInv, ListMetadataKeepsInv, CompareTiedKeepsInv, OpenKeepsInv,
     ReadManifestKeepsInv, ReadDeletesKeepsInv DEF PlanSteps
<1>4. CASE Begin \/ ReadPlain \/ ReadDeleting \/ NothingLeft \/ CountRows \/ AnswerRows \/ AnswerScan \/ AnswerStats
  BY <1>4, BeginKeepsInv, ReadingKeepsInv, AnsweringKeepsInv
<1>5. QED
  BY <1>1, <1>2, <1>3, <1>4 DEF ScanNext, ReadStep

LEMMA IceStutterKeepsInv == ASSUME IceInv, UNCHANGED icebergVars PROVE IceInv'
<1>1. /\ table' = table /\ history' = history /\ head' = head /\ meta' = meta /\ hint' = hint /\ call' = call
  BY DEF icebergVars, tableVars
<1>2. \A i : Snapshot(i)' = Snapshot(i)
  BY <1>1 DEF Snapshot
<1>3. \A m : NewEnough(m)' = NewEnough(m) /\ OfTheTable(m)' = OfTheTable(m)
  BY <1>1, <1>2 DEF NewEnough, OfTheTable
<1>4. QED
  BY <1>1, <1>2, <1>3 DEF IceInv, DirectoryIsSound, CallIsOfTheTable, IsSequence

\* An Iceberg read is of a snapshot that was the table's when the call started or
\* later, by its hint where it has one, and never of one whose writer lost the race
\* for its version, whatever writers and clean-up do meanwhile (locate_metadata).
THEOREM ReadIsOfTheTableAlways == ScanSpec => []ReadIsOfTheTable
<1>1. ScanInit => IceInv
  BY IceInitHolds
<1>2. IceInv /\ [ScanNext]_icebergVars => IceInv'
  BY IceStepKeepsInv, IceStutterKeepsInv
<1>3. IceInv => ReadIsOfTheTable
  <2> SUFFICES ASSUME IceInv, Answered PROVE SnapshotIsTheTables
    BY DEF ReadIsOfTheTable
  <2>1. OfTheTable(call.chosen)
    BY DEF Answered, IceInv, CallIsOfTheTable, Later
  <2>2. QED
    BY <2>1 DEF OfTheTable, NewEnough, SnapshotIsTheTables
<1>4. QED
  BY <1>1, <1>2, <1>3, PTL DEF ScanSpec
=============================================================================
