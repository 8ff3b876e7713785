------------------------------ MODULE Locations ------------------------------
(***************************************************************************)
(* What a location is, for the browser that lists it and for the reader    *)
(* that opens it, and as whom a store is asked (src/src/source.rs,         *)
(* src/src/catalog/path.rs, and the listings and the probe of              *)
(* src/src/objstore.rs).                                                   *)
(*                                                                         *)
(* A name is the sequence of what lies between its dots, in lower case: a  *)
(* name that starts with a dot starts with "".  A place is a sequence of   *)
(* names, on this machine's disk or in a bucket, where only the places of  *)
(* objects exist.  The disk is made up of directories and files; links are *)
(* left out (DirEntry::metadata does not follow them, is_dir does).        *)
(***************************************************************************)
EXTENDS Naturals, SequencesExt, TLC

CONSTANTS
  Worlds,    \* what there may be: {[where, path, kind, magic]}, magic being "PAR1", "ARROW1" or another
  Markers,   \* the names that start with an underscore
  Elsewhere, \* places of catalogs and databases that are asked for too
  Given,     \* formats a caller may name
  Postures   \* RemoteProbe of the program: subset of {"ambient", "vended only", "never"}

VARIABLES
  posture,  \* the program's
  world,    \* what there is
  vended,   \* an identity has been vended for the call
  listed,   \* the listing: [of, entries]
  answer,   \* what an opening has resolved to
  sent      \* history: as whom a store was asked, and for what

placeVars == <<posture, world, vended, listed, answer, sent>>

None == "none"
Nowhere == [where |-> None, path |-> <<>>]
NotListed == [of |-> Nowhere, entries |-> {}]
Source(format, codec) == [format |-> format, codec |-> codec, records |-> FALSE]
NotASource == Source("refused", None)
NotAsked == [of |-> Nowhere, given |-> None, records |-> FALSE, source |-> NotASource]

\* A name is a sequence, and a place has one at least; in a bucket there are objects only.
ASSUME LocationsAssumption ==
  /\ \A there \in Worlds : \A e \in there :
       /\ e.where \in {"disk", "bucket"} /\ (e.where = "bucket" => e.kind # "dir")
       /\ e.path \in Seq(Seq(STRING)) /\ e.path # <<>>
  /\ Elsewhere \subseteq [where : {"catalog", "database"}, path : Seq(Seq(STRING))]

LocationsInit ==
  /\ posture \in Postures /\ world \in Worlds /\ vended \in BOOLEAN
  /\ listed = NotListed /\ answer = NotAsked /\ sent = {}

-----------------------------------------------------------------------------
\* Names.

\* Path::extension and Path::file_stem: a name that starts with a dot has none
\* of its own.
Extension(name) == IF Len(name) < 2 \/ (Len(name) = 2 /\ name[1] = "") THEN None ELSE Last(name)

CodecOf(name) ==
  CASE Extension(name) \in {"gz", "gzip"} -> "gzip"
    [] Extension(name) \in {"zst", "zstd"} -> "zstd"
    [] Extension(name) \in {"bz2", "xz"} -> Extension(name)
    [] OTHER -> None

FormatFromExtension(name) ==
  CASE Extension(name) \in {"parquet", "pq"} -> "parquet"
    [] Extension(name) \in {"csv", "tsv"} -> Extension(name)
    [] Extension(name) \in {"json", "ndjson", "jsonl", "geojson"} -> "json"
    [] Extension(name) \in {"arrow", "feather", "ipc", "arrows"} -> "arrow"
    [] OTHER -> None

\* Only what is read front to back can be compressed around it.
Compressible(format) == format \in {"csv", "tsv", "json"}

FormatFromName(name) ==
  LET codec == CodecOf(name)
      format == FormatFromExtension(IF codec = None THEN name ELSE Front(name))
  IN IF codec = None THEN [format |-> format, codec |-> None]
     ELSE IF Compressible(format) THEN [format |-> format, codec |-> codec]
     ELSE [format |-> None, codec |-> None]

\* Format::parse: the names a caller may give.
FormatNamed(given) ==
  CASE given \in {"parquet", "pq"} -> "parquet"
    [] given \in {"csv", "tsv", "iceberg"} -> given
    [] given \in {"json", "ndjson", "jsonl", "geojson"} -> "json"
    [] given \in {"arrow", "arrows", "feather", "ipc"} -> "arrow"
    [] given \in {"delta", "deltalake"} -> "delta"
    [] given \in {"database", "db", "sqlite", "postgres", "postgresql", "mysql"} -> "database"
    [] OTHER -> None

\* normalize_json_path, with_json_path: records are looked for in JSON, and in what
\* another server will say what it is.
WithJsonPath(source, records) ==
  IF ~records \/ source = NotASource THEN source
  ELSE IF source.format \in {"json", "unknown"} THEN [source EXCEPT !.records = TRUE]
  ELSE NotASource

-----------------------------------------------------------------------------
\* The disk and the bucket.

At(place) == {e \in world : e.where = place.where /\ e.path = place.path}
IsDir(place) == \E e \in At(place) : e.kind = "dir"
Under(place, name) == [place EXCEPT !.path = Append(@, name)]
Below(place) == {e \in world : e.where = place.where /\ IsStrictPrefix(place.path, e.path)}
Name(place) == Last(place.path)
DeltaLog == <<"_delta_log">>
Metadata == <<"metadata">>

\* `collect_parquet_files`: what is hidden or a marker is skipped, with all that
\* is under it.
IsMarker(name) == name[1] = "" \/ name \in Markers
ListParquetFiles(place) ==
  {e.path : e \in {f \in Below(place) :
     /\ f.kind = "file" /\ Extension(Last(f.path)) = "parquet"
     /\ \A i \in Len(place.path) + 1 .. Len(f.path) : ~IsMarker(f.path[i])}}

\* `sniff_magic`.
SniffMagic(place) ==
  CASE \E e \in At(place) : e.magic = "PAR1" -> Source("parquet", None)
    [] \E e \in At(place) : e.magic = "ARROW1" -> Source("arrow", None)
    [] OTHER -> NotASource

\* As whom a store is asked: the call's identity, or the process's where the
\* posture lets it.
Identity == IF vended THEN "caller" ELSE "process"
MayList == vended \/ posture # "vended only"
MayProbe == posture # "never" /\ MayList
Asks(probe, given) == sent' = sent \cup {[as |-> Identity, probe |-> probe, given |-> given]}

\* `looks_like_iceberg_as`: is there anything under metadata/?
LooksLikeIceberg(place) == Below(Under(place, Metadata)) # {}

-----------------------------------------------------------------------------
\* `load_table`: the source a place gives on its own, and whether a store is
\* asked about it.
NeedsProbe(place) == place.where = "bucket" /\ FormatFromName(Name(place)).format = None

LoadDirectory(place) ==
  CASE IsDir(Under(place, DeltaLog)) -> Source("delta", None)
    [] IsDir(Under(place, Metadata)) /\ ~IsDir(Under(place, DeltaLog)) -> Source("iceberg", None)
    [] OTHER -> IF ListParquetFiles(place) = {} THEN NotASource ELSE Source("parquet", None)

LoadTable(place) ==
  LET named == FormatFromName(Name(place))
  IN CASE place.where = "catalog" -> IF Len(place.path) = 1 THEN NotASource ELSE Source("iceberg", None)
       [] place.where = "database" -> Source("database", None)
       [] NeedsProbe(place) ->
            IF MayProbe /\ LooksLikeIceberg(place) THEN Source("iceberg", None) ELSE NotASource
       [] place.where = "disk" /\ IsDir(place) -> LoadDirectory(place)
       [] place.where \in {"disk", "bucket"} /\ ~IsDir(place) /\ named.format # None ->
            Source(named.format, named.codec)
       [] OTHER -> SniffMagic(place)

\* `resolve`: a format the caller names is taken at its word, but for a catalog's
\* table, whose catalog says what it is.
ResolveSource(place, given) ==
  CASE given = None -> LoadTable(place)
    [] given # None /\ FormatNamed(given) = None -> NotASource
    [] given # None /\ place.where = "catalog" ->
         IF LoadTable(place).format = FormatNamed(given) THEN LoadTable(place) ELSE NotASource
    [] OTHER -> Source(FormatNamed(given), CodecOf(Name(place)))

\* `unresolved`: a source a remote engine will resolve, left as it is written.
Unresolved(place, given) ==
  IF given = None THEN Source("unknown", None) ELSE ResolveSource(place, given)

Known ==
  {[where |-> e.where, path |-> e.path] : e \in world} \cup Elsewhere
    \cup {[where |-> e.where, path |-> Front(e.path)] : e \in {f \in world : Len(f.path) > 1}}

\* Nothing is kept from one opening to the next: one after each listing is enough.
OpenHere(place, given, records) ==
  /\ answer = NotAsked
  /\ answer' = [of |-> place, given |-> given, records |-> records,
                source |-> WithJsonPath(ResolveSource(place, given), records)]
  /\ IF NeedsProbe(place) /\ given = None /\ MayProbe THEN Asks(TRUE, given) ELSE UNCHANGED sent
  /\ UNCHANGED <<posture, world, vended, listed>>

OpenElsewhere(place, given, records) ==
  /\ answer = NotAsked
  /\ answer' = [of |-> Nowhere, given |-> given, records |-> records,
                source |-> WithJsonPath(Unresolved(place, given), records)]
  /\ UNCHANGED <<posture, world, vended, listed, sent>>

-----------------------------------------------------------------------------
Listed(place, kind, format) == [place |-> place, kind |-> kind, format |-> format]
Child(place, e) == e.where = place.where /\ Len(e.path) = Len(place.path) + 1 /\ IsPrefix(place.path, e.path)
Hidden(place) == Name(place)[1] = ""

\* Mutant: the browser looks for the directory of an Iceberg table first.
LabelMetadataFirst(place) ==
  IF IsDir(Under(place, Metadata)) THEN "iceberg"
  ELSE IF IsDir(Under(place, DeltaLog)) THEN "delta" ELSE None

\* What a directory is labelled as, in the order of `load_table`.
Label(place) ==
  IF IsDir(Under(place, DeltaLog)) THEN "delta"
  ELSE IF IsDir(Under(place, Metadata)) THEN "iceberg" ELSE None

\* `list`: of a directory, what is not hidden; of its files, those with a name
\* that says what they are.
ListDirectory(place) ==
  LET children == {p \in {[where |-> e.where, path |-> e.path] : e \in {f \in world : Child(place, f)}} : ~Hidden(p)}
      files == {p \in children : ~IsDir(p) /\ FormatFromName(Name(p)).format # None}
  IN {Listed(p, "dir", Label(p)) : p \in {q \in children : IsDir(q)}}
       \cup {Listed(p, "file", FormatFromName(Name(p)).format) : p \in files}

\* `build_listing`: a prefix of objects is listed whatever its name, and never
\* labelled.
BuildListing(place) ==
  LET names == {e.path[Len(place.path) + 1] : e \in Below(place)}
      objects == {n \in names : At(Under(place, n)) # {} /\ n[1] # "" /\ FormatFromName(n).format # None}
      prefixes == {n \in names : Below(Under(place, n)) # {}}
  IN {Listed(Under(place, n), "dir", None) : n \in prefixes}
       \cup {Listed(Under(place, n), "file", FormatFromName(n).format) : n \in objects}

\* A directory or a prefix is listed; the store is asked by whoever may ask it.
ListPlace(place) ==
  /\ place.where \in {"disk", "bucket", "catalog"}
  /\ listed' = CASE place.where = "disk" /\ IsDir(place) -> [of |-> place, entries |-> ListDirectory(place)]
                [] place.where = "bucket" /\ MayList -> [of |-> place, entries |-> BuildListing(place)]
                [] OTHER -> NotListed
  /\ IF place.where = "bucket" /\ MayList THEN Asks(FALSE, None) ELSE UNCHANGED sent
  /\ answer' = NotAsked
  /\ UNCHANGED <<posture, world, vended>>

\* `parent_uri` and Path::parent: up to the root.
Up ==
  /\ Len(listed.of.path) > 1
  /\ ListPlace([listed.of EXCEPT !.path = Front(@)])

LocationsNext ==
  \/ \E place \in Known :
       \/ ListPlace(place)
       \/ \E given \in Given \cup {None}, records \in BOOLEAN :
            OpenHere(place, given, records) \/ OpenElsewhere(place, given, records)
  \/ Up

LocationsSpec == LocationsInit /\ [][LocationsNext]_placeVars

-----------------------------------------------------------------------------
\* What the browser labels is what the reader opens: an entry with a format opens
\* as that format, and a directory of this machine without one as a set of Parquet
\* files if at all ("the file browser and the reader never disagree about what a
\* directory is", source.rs:9-10).
BrowserAgreesWithReader ==
  \A e \in listed.entries : answer.of = e.place /\ answer.given = None /\ ~answer.records =>
    IF e.format # None THEN answer.source.format = e.format
    ELSE e.place.where = "disk" => answer.source.format \in {"parquet", "refused"}

\* A store is asked as the caller whenever there is an identity for it, as the
\* process only by a program that may, and about nothing the caller has named
\* (source.rs:241-264).
AsksAsTheCaller ==
  \A q \in sent :
    /\ q.as = IF vended THEN "caller" ELSE "process"
    /\ q.as = "process" => posture # "vended only"
    /\ q.probe => posture # "never" /\ q.given = None

PlacesAreTrue == BrowserAgreesWithReader /\ AsksAsTheCaller
=============================================================================
