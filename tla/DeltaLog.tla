-------------------------------- MODULE DeltaLog --------------------------------
(***************************************************************************)
(* Planning the read of a Delta table from its log, and the cache of plans *)
(* (src/src/engine/delta.rs), while writers commit to the table and clean  *)
(* up its log.                                                             *)
(*                                                                         *)
(* A commit is a list of actions; commit number i of the model is version  *)
(* i - 1 of the log.  A commit file appears whole and is not written again *)
(* (writers put it in place with its content), so its modification time is *)
(* fixed by its version.  A plan is asked for by any number of requests at *)
(* once; the cache's mutex is held for a look-up or an insertion only.     *)
(***************************************************************************)
EXTENDS Naturals, Sequences, FiniteSets

CONSTANTS
  Calls,       \* threads that ask for plans
  DeltaTables,      \* tables that are looked at
  Files,       \* data files
  CacheMax,    \* PLAN_CACHE_MAX_TABLES
  MaxCommits   \* bound: the commits of all writers

ASSUME DeltaAssumption == CacheMax \in Nat \ {0} /\ MaxCommits \in Nat

VARIABLES
  log,      \* the commits of each table
  first,    \* the first one that log clean-up has left
  cache,    \* PLAN_CACHE
  planCall  \* what each thread is doing

deltaVars == <<log, first, cache, planCall>>

\* A schema, with column mapping or without it; a file that is added, with a
\* deletion vector or without one; and a file that is removed.
Action ==
  [kind: {"metaData"}, mapped: BOOLEAN]
    \cup [kind: {"add"}, file: Files, vector: BOOLEAN]
    \cup [kind: {"remove"}, file: Files]

\* What writers put in one commit.  One that deletes some rows of a file
\* removes it and adds it again with a deletion vector, in this order.
RemoveFile(f) == [kind |-> "remove", file |-> f]
Add(f, vector) == [kind |-> "add", file |-> f, vector |-> vector]
Commits ==
  {<<[kind |-> "metaData", mapped |-> m]>> : m \in BOOLEAN}
    \cup UNION {{<<Add(f, FALSE)>>, <<RemoveFile(f)>>, <<RemoveFile(f), Add(f, TRUE)>>} : f \in Files}

DeltaPlan == [files: SUBSET Files, upTo: Nat]
Fingerprint == [highest: Nat, count: Nat]
Seen == [schema: {"none", "plain", "mapped"}, active: SUBSET Files, vectors: SUBSET Files]
Nothing == [schema |-> "none", active |-> {}, vectors |-> {}]

Idle == [at |-> "idle"]

DeltaTypeOK ==
  /\ log \in [DeltaTables -> Seq(Seq(Action))]
  /\ \A t \in DeltaTables : first[t] \in 1..Len(log[t])
  /\ DOMAIN cache \subseteq DeltaTables
  /\ \A t \in DOMAIN cache : cache[t].key \in Fingerprint /\ cache[t].plan \in DeltaPlan
  /\ Cardinality(DOMAIN cache) <= CacheMax
  /\ \A c \in Calls :
       \/ planCall[c] = Idle
       \/ /\ planCall[c].at \in {"listed", "missed", "replay", "planned", "refused", "failed"}
          /\ planCall[c].table \in DeltaTables
          /\ planCall[c].since \in 1..Len(log[planCall[c].table])
          /\ planCall[c].key \in Fingerprint
          /\ planCall[c].todo \in Seq(Nat)
          /\ planCall[c].seen \in Seen
          /\ planCall[c].plan \in DeltaPlan

\* A table is created with a schema and some data.
Created == {<<[kind |-> "metaData", mapped |-> FALSE], Add(f, FALSE)>> : f \in Files}

DeltaInit ==
  /\ \E actions \in [DeltaTables -> Created] : log = [t \in DeltaTables |-> <<actions[t]>>]
  /\ first = [t \in DeltaTables |-> 1]
  /\ cache = [t \in {} |-> Idle]
  /\ planCall = [c \in Calls |-> Idle]

-----------------------------------------------------------------------------
(***************************************************************************)
(* What a table holds after its n-th commit, by the last action on a file. *)
(***************************************************************************)

\* The places of the actions of the first n commits of t, and their order.
Places(t, n) == {p \in (1..n) \X (1..2) : p[2] <= Len(log[t][p[1]])}
ActionAt(t, place) == log[t][place[1]][place[2]]
Earlier(p, q) == p[1] < q[1] \/ (p[1] = q[1] /\ p[2] < q[2])
LastAmong(t, n, about) ==
  {p \in Places(t, n) :
     /\ ActionAt(t, p) \in about
     /\ \A q \in Places(t, n) : Earlier(p, q) => ActionAt(t, q) \notin about}

ActionsOn(f) == {RemoveFile(f), Add(f, FALSE), Add(f, TRUE)}
SchemaActions == [kind: {"metaData"}, mapped: BOOLEAN]
LastOn(t, n, f) == LastAmong(t, n, ActionsOn(f))
LastSchema(t, n) == LastAmong(t, n, SchemaActions)

Live(t, n) == {f \in Files : \E p \in LastOn(t, n, f) : ActionAt(t, p).kind = "add"}
WithVector(t, n) == {f \in Live(t, n) : \E p \in LastOn(t, n, f) : ActionAt(t, p).vector}
Mapped(t, n) == \E p \in LastSchema(t, n) : ActionAt(t, p).mapped

-----------------------------------------------------------------------------
\* The commits of all tables but the ones that made them.
Made == UNION {{t} \X (2..Len(log[t])) : t \in DeltaTables}

\* A writer commits; it removes files that are live.
Commit(t, actions) ==
  /\ Cardinality(Made) < MaxCommits
  /\ \A f \in Files : actions[1] = RemoveFile(f) => f \in Live(t, Len(log[t]))
  /\ log' = [log EXCEPT ![t] = Append(@, actions)]
  /\ UNCHANGED <<first, cache, planCall>>

\* Log clean-up removes the oldest commit, which a checkpoint has made
\* redundant for readers that read checkpoints.
CleanUp(t) ==
  /\ first[t] < Len(log[t])
  /\ first' = [first EXCEPT ![t] = @ + 1]
  /\ UNCHANGED <<log, cache, planCall>>

\* commit_versions
LogVersions(t) == [i \in 1..(Len(log[t]) - first[t] + 1) |-> first[t] + i - 1]

\* log_fingerprint
LogFingerprint(t) == [highest |-> Len(log[t]), count |-> Len(LogVersions(t))]

Move(c, at) == planCall' = [planCall EXCEPT ![c].at = at]

\* `plan_cached` lists the log, for the fingerprint.
List(c, t) ==
  /\ planCall[c] = Idle
  /\ planCall' = [planCall EXCEPT ![c] =
                [at |-> "listed", table |-> t, since |-> Len(log[t]), key |-> LogFingerprint(t),
                 todo |-> <<>>, seen |-> Nothing, plan |-> [files |-> {}, upTo |-> 0]]]
  /\ UNCHANGED <<log, first, cache>>

Cached(c) == planCall[c].table \in DOMAIN cache /\ cache[planCall[c].table].key = planCall[c].key

\* The plan that was made for this fingerprint is taken.
Hit(c) ==
  /\ planCall[c].at = "listed" /\ Cached(c)
  /\ planCall' = [planCall EXCEPT ![c].at = "planned", ![c].plan = cache[planCall[c].table].plan]
  /\ UNCHANGED <<log, first, cache>>

Miss(c) ==
  /\ planCall[c].at = "listed" /\ ~Cached(c)
  /\ Move(c, "missed")
  /\ UNCHANGED <<log, first, cache>>

\* `plan_uncached` lists the log again.
ListAgain(c) ==
  /\ planCall[c].at = "missed"
  /\ LET t == planCall[c].table
     IN planCall' = [planCall EXCEPT ![c].at = "replay", ![c].todo = LogVersions(t),
                             ![c].plan.upTo = Len(log[t])]
  /\ UNCHANGED <<log, first, cache>>

\* One action of a commit.
Apply(seen, a) ==
  CASE a.kind = "metaData" ->
         [seen EXCEPT !.schema = IF a.mapped THEN "mapped" ELSE "plain"]
    [] a.kind = "add" ->
         [seen EXCEPT !.active = @ \cup {a.file},
                      !.vectors = IF a.vector THEN @ \cup {a.file} ELSE @ \ {a.file}]
    [] a.kind = "remove" ->
         [seen EXCEPT !.active = @ \ {a.file}, !.vectors = @ \ {a.file}]

\* The actions of a commit in order; there are one or two.
ApplyAll(seen, actions) ==
  IF Len(actions) = 1 THEN Apply(seen, actions[1])
  ELSE Apply(Apply(seen, actions[1]), actions[2])

\* The next commit is read, and its actions applied.
ReadCommit(c) ==
  /\ planCall[c].at = "replay" /\ planCall[c].todo # <<>>
  /\ LET t == planCall[c].table
         next == Head(planCall[c].todo)
     IN /\ next >= first[t]
        /\ planCall' = [planCall EXCEPT ![c].todo = Tail(@),
                                ![c].seen = ApplyAll(@, log[t][next])]
  /\ UNCHANGED <<log, first, cache>>

\* It has been cleaned up since the log was listed.
ReadFails(c) ==
  /\ planCall[c].at = "replay" /\ planCall[c].todo # <<>>
  /\ Head(planCall[c].todo) < first[planCall[c].table]
  /\ planCall' = [planCall EXCEPT ![c].at = "failed", ![c].todo = <<>>, ![c].seen = Nothing]
  /\ UNCHANGED <<log, first, cache>>

Replayed(c) == planCall[c].at = "replay" /\ planCall[c].todo = <<>>

\* The requirements the reader can meet: check_reader_requirements.
Readable(seen) == seen.schema = "plain" /\ seen.vectors = {}

\* There is no schema, or something the reader does not do.
Refuse(c) ==
  /\ Replayed(c) /\ ~Readable(planCall[c].seen)
  /\ planCall' = [planCall EXCEPT ![c].at = "refused", ![c].seen = Nothing]
  /\ UNCHANGED <<log, first, cache>>

\* Mutant: the fingerprint is taken when the plan is made.
KeepForNow(c) ==
  LET t == planCall[c].table
      others == IF Cardinality(DOMAIN cache) >= CacheMax /\ t \notin DOMAIN cache
                THEN {} ELSE DOMAIN cache
  IN cache' = [x \in others \cup {t} |->
                 IF x = t THEN [key |-> LogFingerprint(t), plan |-> planCall'[c].plan]
                 ELSE cache[x]]

\* The plan is kept under the fingerprint taken before the replay; a cache
\* that is full is cleared for a table that is not in it.
Keep(c) ==
  LET t == planCall[c].table
      others == IF Cardinality(DOMAIN cache) >= CacheMax /\ t \notin DOMAIN cache
                THEN {} ELSE DOMAIN cache
  IN cache' = [x \in others \cup {t} |->
                 IF x = t THEN [key |-> planCall[c].key, plan |-> planCall'[c].plan] ELSE cache[x]]

Make(c) ==
  /\ Replayed(c) /\ Readable(planCall[c].seen)
  /\ planCall' = [planCall EXCEPT ![c].at = "planned", ![c].plan.files = planCall[c].seen.active,
                          ![c].seen = Nothing]
  /\ Keep(c)
  /\ UNCHANGED <<log, first>>

Return(c) ==
  /\ planCall[c].at \in {"planned", "refused", "failed"}
  /\ planCall' = [planCall EXCEPT ![c] = Idle]
  /\ UNCHANGED <<log, first, cache>>

AskPlan(c) ==
  \/ \E t \in DeltaTables : List(c, t)
  \/ Hit(c) \/ Miss(c) \/ ListAgain(c) \/ ReadCommit(c) \/ ReadFails(c) \/ Refuse(c)
  \/ Make(c) \/ Return(c)

DeltaNext ==
  \/ \E t \in DeltaTables : CleanUp(t) \/ \E actions \in Commits : Commit(t, actions)
  \/ \E c \in Calls : AskPlan(c)

DeltaSpec == DeltaInit /\ [][DeltaNext]_deltaVars

-----------------------------------------------------------------------------
Moments(c) == planCall[c].since..Len(log[planCall[c].table])

\* A plan is the table as it was at one moment of the call, whether it was made
\* now or taken from the cache, by this call or by another that ran at the same
\* time.  When clean-up has begun it may miss files, but has none that are not
\* live ("the cache must be invisible except in cost", delta.rs:984; the
\* limitation is delta.rs:58-68).
PlanIsAMoment ==
  \A c \in Calls : planCall[c] # Idle /\ planCall[c].at = "planned" =>
    \E n \in Moments(c) :
      LET t == planCall[c].table
      IN /\ planCall[c].plan.files \subseteq Live(t, n)
         /\ first[t] = 1 => planCall[c].plan.files = Live(t, n)

\* No file of a plan has rows that a deletion vector deletes, and no plan is made
\* of a table with column mapping (delta.rs:44-54).
PlanIsReadable ==
  \A c \in Calls : planCall[c] # Idle /\ planCall[c].at = "planned" =>
    \E n \in Moments(c) :
      LET t == planCall[c].table
      IN /\ planCall[c].plan.files \cap WithVector(t, n) = {}
         /\ first[t] = 1 => WithVector(t, n) = {}
         /\ ~Mapped(t, n)

\* A table is refused for what it is at some moment of the call, not for what
\* has been removed from it (delta.rs:258-260).
RefusedForCause ==
  \A c \in Calls : planCall[c] # Idle /\ planCall[c].at = "refused" =>
    \E n \in Moments(c) :
      LET t == planCall[c].table
      IN first[t] > 1 \/ Mapped(t, n) \/ WithVector(t, n) # {}

\* A table is read as it was at a moment when it can be, and refused when it cannot.
PlanIsTheTable == PlanIsAMoment /\ PlanIsReadable /\ RefusedForCause
=============================================================================
