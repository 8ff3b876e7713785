----------------------------- MODULE ObjectReads -----------------------------
(***************************************************************************)
(* Reading a JSON object in a store as it arrives, and remembering what is *)
(* learned of it (src/src/objstore.rs: StoreOptions, StoreObject, Body;    *)
(* src/src/format/json.rs: plan, infer, read_rows).                        *)
(*                                                                         *)
(* A read looks the object up, and then makes passes over its bytes: one   *)
(* to find where its records lie, one to infer their schema, one for the   *)
(* rows.  Each pass is a request, which the store may end at any time; the *)
(* object may be replaced between any two requests.  What the first two    *)
(* learn is remembered by the object's version and the reader's identity.  *)
(***************************************************************************)
EXTENDS Naturals, Sequences, FiniteSets

CONSTANTS
  Readers,
  Options,      \* what a reader may be configured with: [own, declared, material, env]
  NoScope,      \* not declared, or no credential
  Size,         \* bytes of the object
  CacheEntries, \* CACHE_ENTRIES
  MaxVersions   \* bound: versions of the object

VARIABLES
  object,    \* the object's version
  reading,   \* each reader's read
  layouts,   \* LAYOUTS: [identity, version] -> what was learned, and by whom
  schemas    \* SCHEMAS, likewise

objectVars == <<object, reading, layouts, schemas>>

Passes == {"layout", "schema", "rows"}
Nothing == [version |-> 0, by |-> NoScope]

NotReading(options) ==
  [at |-> "idle", options |-> options, version |-> 0, pass |-> "layout",
   from |-> 0, to |-> 0, pos |-> 0, serves |-> 0, arrived |-> FALSE, took |-> <<>>,
   layout |-> Nothing, schema |-> Nothing]

ObjectInit ==
  /\ object = 1 /\ layouts = <<>> /\ schemas = <<>>
  /\ reading \in [Readers -> {NotReading(o) : o \in Options}]

\* `scope_id`: who the options read as.  Credentials that say nothing of whose
\* they are, are shared with nobody.  (`own` is the options' private scope, which
\* no others have.)
ScopeId(options) ==
  CASE options.declared # NoScope -> options.declared
    [] options.declared = NoScope /\ options.material # NoScope -> options.own
    [] options.declared = NoScope /\ options.material = NoScope /\ options.env -> "ambient-env"
    [] OTHER -> "ambient-none"

\* A private scope is that of one options value and its clones, which are the same
\* reader; the label a caller declares is its own: a tenant, a role, a catalog.
Private(options) == options.declared = NoScope /\ options.material # NoScope
ASSUME ObjectAssumption ==
  /\ Size \in Nat \ {0} /\ MaxVersions \in Nat
  /\ \A o \in Options : o.env \in BOOLEAN /\ o.declared \notin {"ambient-env", "ambient-none"}
  /\ \A o, p \in Options : Private(o) =>
       /\ o.own \notin {p.declared, "ambient-env", "ambient-none"}
       /\ Private(p) /\ o.own = p.own => o = p

KeyOf(r) == [identity |-> ScopeId(reading[r].options), version |-> reading[r].version]
Becomes(r, read) == reading' = [reading EXCEPT ![r] = read]

\* `Cache::put`: what is remembered is cleared when there is too much of it.
Remember(cache, key, fact) ==
  LET others == IF Cardinality(DOMAIN cache) >= CacheEntries THEN {} ELSE DOMAIN cache
  IN [k \in others \cup {key} |-> IF k = key THEN fact ELSE cache[k]]

\* `object_with`: a HEAD finds the version to read.
Lookup(r) ==
  /\ reading[r].at = "idle"
  /\ Becomes(r, [reading[r] EXCEPT !.at = "plan", !.version = object])
  /\ UNCHANGED <<object, layouts, schemas>>

\* Where the records of a version lie.
MemberStart(version) == version % Size
RangeOf(read) ==
  IF read.pass = "layout" THEN [from |-> 0, to |-> Size]
  ELSE [from |-> MemberStart(read.layout.version), to |-> Size]

\* `plan` and `infer`, when it is known already.
UseLayout(r) ==
  /\ reading[r].at = "plan" /\ reading[r].pass = "layout" /\ KeyOf(r) \in DOMAIN layouts
  /\ Becomes(r, [reading[r] EXCEPT !.pass = "schema", !.layout = layouts[KeyOf(r)]])
  /\ UNCHANGED <<object, layouts, schemas>>
UseSchema(r) ==
  /\ reading[r].at = "plan" /\ reading[r].pass = "schema" /\ KeyOf(r) \in DOMAIN schemas
  /\ Becomes(r, [reading[r] EXCEPT !.pass = "rows", !.schema = schemas[KeyOf(r)]])
  /\ UNCHANGED <<object, layouts, schemas>>

\* Mutant: the bytes of whatever version is there.
AnswersAny(version) == TRUE

\* `request`: by ETag, or by the time of the version, which no other one has.
Answers(version) == version = object

\* What is left of a read's range is asked for, of the version looked up.  The
\* answer is of one version from its first byte to its last.
Request(r, read) ==
  Becomes(r, IF Answers(read.version) THEN [read EXCEPT !.at = "stream", !.serves = object, !.arrived = FALSE]
             ELSE [read EXCEPT !.at = "failed"])

\* `open`: a pass asks for its range.
Open(r) ==
  LET read == reading[r]
      range == RangeOf(read)
  IN /\ read.at = "plan"
     /\ read.pass = "layout" => KeyOf(r) \notin DOMAIN layouts
     /\ read.pass = "schema" => KeyOf(r) \notin DOMAIN schemas
     /\ Request(r, [read EXCEPT !.from = range.from, !.to = range.to, !.pos = range.from, !.took = <<>>])
     /\ UNCHANGED <<object, layouts, schemas>>

\* A store that is not answering ends the read.
Unanswered(r) ==
  /\ reading[r].at \in {"idle", "plan", "resume"}
  /\ Becomes(r, [reading[r] EXCEPT !.at = "failed"])
  /\ UNCHANGED <<object, layouts, schemas>>

\* `fill_buf`: the next bytes arrive.
Arrive(r) ==
  LET read == reading[r]
  IN /\ read.at = "stream" /\ read.pos < read.to
     /\ Becomes(r, [read EXCEPT !.pos = @ + 1, !.arrived = TRUE,
                                !.took = Append(@, [version |-> read.serves, at |-> read.pos])])
     /\ UNCHANGED <<object, layouts, schemas>>

\* The request is ended by the store's client: what is left is asked for, if it
\* has brought anything since it was made.
TimeOut(r) ==
  LET read == reading[r]
  IN /\ read.at = "stream"
     /\ Becomes(r, [read EXCEPT !.at = IF read.arrived /\ read.pos < read.to THEN "resume" ELSE "failed"])
     /\ UNCHANGED <<object, layouts, schemas>>

\* The rest, of the same version.
Resume(r) ==
  /\ reading[r].at = "resume"
  /\ Request(r, reading[r])
  /\ UNCHANGED <<object, layouts, schemas>>

\* A pass is over when it has seen enough: one record tells how an object is laid
\* out, a sample what the schema is, and rows are wanted up to a limit.
Enough(r, pass) ==
  reading[r].at = "stream" /\ reading[r].pass = pass /\ reading[r].pos > reading[r].from
Learned(r) == [version |-> Head(reading[r].took).version, by |-> reading[r].options]
EndLayout(r) ==
  /\ Enough(r, "layout")
  /\ layouts' = Remember(layouts, KeyOf(r), Learned(r))
  /\ Becomes(r, [reading[r] EXCEPT !.at = "plan", !.pass = "schema", !.layout = Learned(r)])
  /\ UNCHANGED <<object, schemas>>
EndSchema(r) ==
  /\ Enough(r, "schema")
  /\ schemas' = Remember(schemas, KeyOf(r), Learned(r))
  /\ Becomes(r, [reading[r] EXCEPT !.at = "plan", !.pass = "rows", !.schema = Learned(r)])
  /\ UNCHANGED <<object, layouts>>
EndRows(r) ==
  /\ Enough(r, "rows")
  /\ Becomes(r, [reading[r] EXCEPT !.at = "done"])
  /\ UNCHANGED <<object, layouts, schemas>>

\* Somebody replaces the object.
Replace ==
  /\ object < MaxVersions /\ object' = object + 1
  /\ UNCHANGED <<reading, layouts, schemas>>

ReadStep(r) ==
  \/ Lookup(r) \/ UseLayout(r) \/ UseSchema(r) \/ Open(r) \/ Unanswered(r) \/ Arrive(r)
  \/ TimeOut(r) \/ Resume(r) \/ EndLayout(r) \/ EndSchema(r) \/ EndRows(r)

ObjectNext == Replace \/ \E r \in Readers : ReadStep(r)

ObjectSpec == ObjectInit /\ [][ObjectNext]_objectVars

-----------------------------------------------------------------------------
\* A read takes bytes of the version it looked up and of no other, each once and
\* in order, however often its request is made again; and where it looks for
\* records, and the schema it decodes them by, were learned from that version too
\* (format/mod.rs:62-65, objstore.rs:845-853).
ReadsOneVersion ==
  \A r \in Readers :
    LET read == reading[r]
    IN /\ \A i \in DOMAIN read.took : read.took[i] = [version |-> read.version, at |-> read.from + i - 1]
       /\ read.layout.version \in {0, read.version} /\ read.schema.version \in {0, read.version}

\* What one identity's read has learned never answers another's
\* (format/mod.rs:53-56): it is used by the same options, by those that declare
\* the same scope, or by others that have no credentials of their own either.
SamePrincipal(options, others) ==
  \/ options = others
  \/ options.declared = others.declared /\ options.declared # NoScope
  \/ /\ {options.declared, others.declared, options.material, others.material} = {NoScope}
     /\ options.env = others.env
LearnsOnItsOwn ==
  \A r \in Readers : \A fact \in {reading[r].layout, reading[r].schema} :
    fact # Nothing => SamePrincipal(reading[r].options, fact.by)

ReadsAreTrue == ReadsOneVersion /\ LearnsOnItsOwn

\* A read ends, though any of its requests may time out.
ReadEnds(r) == reading[r].at = "plan" ~> reading[r].at \in {"done", "failed"}
=============================================================================
