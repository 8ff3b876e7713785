--------------------------- MODULE MCCatalogInputs ---------------------------
(***************************************************************************)
(* Small catalogs, files, stores and settings.  A name of a catalog is a   *)
(* sequence of bytes, one of a place a sequence of what lies between dots. *)
(***************************************************************************)
EXTENDS Naturals, Sequences, TLC

\* What a catalog holds: names with nothing to escape, with a `%`, a `/`, an `@`.
a == <<97>>
d == <<100>>
p == <<112>>
percent == <<37, 50, 70>>
slash == <<98, 47>>
at == <<120, 64>>
Namespace(path) == [kind |-> "namespace", path |-> path]
Table(path) == [kind |-> "table", path |-> path]
CatalogsThere == <<p, <<113>>>>
Trees == {{Namespace(<<a>>), Namespace(<<percent>>), Namespace(<<a, slash>>), Table(<<a, percent>>), Table(<<a, slash, at>>)},
          {Namespace(<<a>>), Table(<<a, a>>), Table(<<a, slash>>), Table(<<a, percent>>), Table(<<a, at>>)}}
Additions == {Namespace(<<d>>), Namespace(<<a, d>>), Table(<<a, d>>)}
Withheld == {<<a, percent>>}
PlannedThere == {<<a, slash>>}
Typed == {<<>>, <<80>>, p \o <<47>> \o a, p \o <<47>> \o a \o <<47>> \o d, p \o <<47, 47>>, <<113, 47>>,
          p \o <<47, 37, 122>>, p \o <<47, 37, 50, 102>>}

\* Settings: of catalogs `p` and `m-c`, in a file that may spell them in capitals.
mc == <<109, 45, 99>>
uri == <<<<117>>>>
KeyOfName == [type |-> <<<<116>>>>, uri |-> uri, token |-> <<<<107>>>>, credential |-> <<<<99>>>>,
              session |-> <<<<115>>, <<116>>>>, secret |-> <<<<115>>, <<107>>>>]
               @@ ("storage-fallback" :> <<<<115, 45, 102>>>>) @@ ("oauth2-server-uri" :> <<<<111, 45, 117>>>>)
Setting(name, key, value) == [name |-> name, key |-> key, value |-> value]
SettingsFiles ==
  {{}, {Setting(p, uri, "https"), Setting(p, KeyOfName["token"], "x")},
   {Setting(p, uri, "https"), Setting(<<80>>, uri, "https")},
   {Setting(<<80>>, <<<<85>>>>, "http"), Setting(<<80>>, KeyOfName["secret"], "x")}}
SettingsThere ==
  {Setting(p, uri, "http to this machine"), Setting(p, uri, ""), Setting(p, KeyOfName["token"], ""),
   Setting(p, KeyOfName["credential"], "x"), Setting(mc, uri, "https"), Setting(mc, KeyOfName["storage-fallback"], "none"),
   Setting(p, KeyOfName["oauth2-server-uri"], "http"), Setting(p, KeyOfName["secret"], "y"), Setting(mc, <<<<122>>>>, "")}
StraysThere == {<<80>>, <<80, 95, 95, 95, 95, 85>>, <<95, 80, 95, 95, 85>>}

\* Readers of an object: of the process, with credentials of their own, of a team.
Reader(own, declared, material, env) == [own |-> own, declared |-> declared, material |-> material, env |-> env]
ReaderOptions == {Reader("a", "none", "none", TRUE), Reader("b", "none", "k", TRUE),
                  Reader("c", "none", "k", FALSE), Reader("d", "team", "k", FALSE)}

\* A directory that may be a table of a kind, files of every name and content, a
\* dataset, and the same in a bucket.
t == <<"t">>
dir == <<"d">>
parquet == <<"t", "parquet">>
Directory(path) == [where |-> "disk", path |-> path, kind |-> "dir", magic |-> "x"]
OnDisk(path, magic) == [where |-> "disk", path |-> path, kind |-> "file", magic |-> magic]
InBucket(path) == [where |-> "bucket", path |-> path, kind |-> "file", magic |-> "x"]
DeltaLog == <<"_delta_log">>
Metadata == <<"metadata">>
Hidden == <<"_m", "parquet">>
Inside == {Directory(<<dir, t, DeltaLog>>), Directory(<<dir, t, Metadata>>),
           OnDisk(<<dir, t, parquet>>, "PAR1"), OnDisk(<<dir, t, Hidden>>, "PAR1")}
FileNames == {parquet, t, <<"t", "csv">>, <<"t", "csv", "gz">>, <<"t", "parquet", "gz">>, <<"", "gz">>,
              <<"", "h", "csv">>, <<"t", "gz">>, <<"t", "json", "zst">>}
PlaceWorlds ==
  {some \cup {Directory(<<dir>>), Directory(<<dir, t>>)} : some \in SUBSET Inside}
    \cup {{Directory(<<dir>>), OnDisk(<<dir, name>>, magic)} : name \in FileNames, magic \in {"PAR1", "ARROW1", "x"}}
    \cup {{Directory(<<dir>>), Directory(<<dir, parquet>>), Directory(<<dir, parquet, <<"k=1">>>>),
           OnDisk(<<dir, parquet, <<"k=1">>, parquet>>, "PAR1")}}
    \cup {{InBucket(<<dir, name>>)} : name \in FileNames}
    \cup {{InBucket(<<dir, t, Metadata, t>>), InBucket(<<dir, parquet, parquet>>)}, {InBucket(<<dir, t, t>>)}}
PlaceMarkers == {DeltaLog, Hidden}
PlacesElsewhere == {[where |-> "catalog", path |-> <<dir>>], [where |-> "catalog", path |-> <<dir, t>>],
              [where |-> "database", path |-> <<dir>>]}
=============================================================================
