# Lakeleto in TLA+

Specifications of the parts of Lakeleto where something can go wrong that a unit test would
hardly reach: several threads, tasks or processes that share state, a deadline that races an
answer, a crash between two writes, a file that changes while it is read, a format that says one
thing in two places. Each module is translated from the source; every definition that stands for
code is listed, with the lines it stands for, under `map` in `PROJECT.json`. File names and line
numbers below are of files under `src/src/`, unless they begin with `frontend`.

Contents: [inventory](#1-inventory) - [modules and code](#2-the-modules-and-the-code) -
[runs](#3-the-runs-and-what-they-show) - [bounds](#4-bounds) - [fairness](#5-fairness) -
[proofs](#6-the-proofs) - [assumptions](#7-assumptions) -
[disagreements found](#8-where-the-code-and-its-words-differ) -
[not modelled](#9-what-is-not-modelled) - [plan](#10-plan).

To check a model: `tlc -config MCPrograms.cfg MCPrograms`; to check proofs: `tlapm
McpSession_proofs.tla`.

## 1. Inventory

Lakeleto reads tables where they are (files, object stores, Delta and Iceberg tables, REST
catalogs, databases), and shows them on the command line, in a web grid served by `lakeleto
serve`, in a desktop application, and to a model client over MCP.

| Component | Source | State it keeps | Hard because | Correct when |
|---|---|---|---|---|
| MCP server | `mcp/mod.rs` | pending calls, the count of running threads, the channel | three actors share a channel; threads return late or never; ids are reused | every request is answered once, by its own result, or withdrawn; the session ends when nothing is owed |
| MCP tools | `mcp/tools.rs` | none | results are cut at two limits at once; statistics are put together from row groups | pages are the table; what a result says of what it leaves out is so |
| Workspace store | `workspace.rs` | a directory per workspace: definition, history, cached results; a lock for each | some requests take no lock; a crash or a full disk between two writes | definitions are whole; recorded runs stay, with their results; what is removed stays removed |
| Workspace sync | `workspace_remote.rs` | none (another server's store) | replies are lost | as above |
| REST catalog client | `catalog/rest.rs` | one token, its time of renewal, the catalog's configuration | calls share the token without its mutex across an await; catalogs page in many ways | no refused token comes back; listings are whole or say that they are not; calls end |
| Catalog storage | `catalog/vended.rs` | the current vended credential of a table | concurrent renewals; one credential out of four sources | none mixes origins; none older than the current one is handed out |
| Catalog registry | `catalog/{mod,registry,config,path,reference}.rs` | catalogs by name | settings of a file and of the environment under names that differ in case and separators | what a listing shows can be opened; the environment wins |
| Delta reader | `engine/delta.rs` | cache of plans by table and log fingerprint | writers commit, and clean the log up, during the replay | a plan is the table at one moment of the call; refusals have a cause |
| Iceberg reader | `iceberg.rs` | none | which delete applies to which file; pruning; schemas and partitionings that evolve | a read is one snapshot; nothing that matches is pruned; columns keep their values |
| SQL engine | `engine/sql.rs`, `engine/sql/*` | the schemas the formats remember | parallel sorts leave ties to timing; the file changes between passes; sampled types turn out too narrow | every window is a slice of one order; totals are right; types hold the file |
| Formats | `format/*` | what is remembered of a version of a file | versions, broken connections and limits are told apart after the fact | a read is of one version, and fails for the cause it tells |
| Local engine | `engine/local.rs`, `engine/flatten.rs` | none | a directory changes between listing, schemas and rows | each value is in the column of its name |
| Database engine | `engine/database.rs` | cache of at most 8 pools for each dialect | a pool is evicted and closed while in use; callers differ in credentials | a statement runs as its caller; pools stay sound |
| Remote engine | `engine/remote.rs` | the server's capabilities | the server is replaced; an answer is cut | what it returns is the server's |
| Engine registry | `engine/{mod,registry}.rs` | none | three engines evaluate one filter | a filter means the same everywhere |
| Object stores | `objstore.rs` | stores by scope | an object is replaced between two requests for it | a read is of one version, what it learns stays with one principal |
| Source resolution | `source.rs` | none | what a listing calls a place and what a read takes it for are decided apart | they agree |
| Confinement | `confine.rs` | none | the path checked is not the plan read | nothing outside the root is opened |
| HTTP API | `api.rs` | the running queries, the workspaces | a streaming thread, a deadline and a client that leaves | answers are whole or seen to be cut; runs are recorded; requests end |
| Request context | `context.rs` | a deadline, a cancellation flag, an identity | read between steps | as its users |
| Command line | `cli.rs`, `main.rs` | the file of `--out` | two runs write one file, and are killed | the file is what one run wrote, whole |
| Rendering | `render.rs` | none | an Arrow stream ends anywhere | as the command line and the remote engine |
| Desktop launcher | `desktop.rs`, `bin/lakeleto-desktop.rs` | the port file | two launches at once | one server (not so, see 8) |
| Web frontend | `frontend/src/*` | windows of the grid that have been fetched | answers out of order, failures, retries | the grid shows the table, and never stands still |
| Zones, icon, errors; packaging | `zone.rs`, ... | none | not concurrent | not modelled |

How they interact. The API, the command line and the MCP tools resolve a *source*, confine it to
the root the server was given, ask the engine registry which engine takes it, and scan or query
it under a *context* (a deadline, a flag and an identity). Engines get stores from the
object-store module, which for a catalog's table asks catalog storage for a credential, which
asks the catalog client, which logs in. The grid fetches windows of one table through the API,
any number at once. The workspace store is reached through the API alone, by this server's users
or by another server's sync. The MCP session calls tools on threads of their own and is told of
their end over its channel. The remote engine puts another server behind the engine's interface.

The hazards of this code, each at its line, with the properties that would catch it going wrong,
are listed under `hazards` in `PROJECT.json`.

## 2. The modules and the code

Names of definitions follow the functions they translate where TLA+ allows it. A comment names
the variables that only record what the properties speak of (a *history*); no condition of the
code is translated to one.

Programs and their users:

| Module | Of | State and steps |
|---|---|---|
| `McpSession` | mcp/mod.rs | `inbox` is the mpsc channel; `call` has a record for every call started, `pending` in it being membership of `Session::pending`; `running` is the atomic counter; `phase` tells the two halves of an iteration, *check deadlines* and *receive*. The client, its reader and call threads interleave with `Loop`. A thread gives its slot back and then reports, in two steps, as in the code. Time is the ticks left to each deadline, so that no clock grows. |
| `McpPromise` | the abstract specification | Requests are asked, then answered once or withdrawn; a session is over only when closed and nothing is owed. `McpSession` maps to it at its end (`Promise`, `KeepsPromise`). |
| `McpTools` | mcp/tools.rs, `profile_from_footer` | An agent describes, pages through, profiles and queries a table. A row is known by the bytes of its JSON, a column by what the footer has of its row groups. |
| `WorkspaceStore` | workspace.rs, workspace_remote.rs, api.rs | The directory of each workspace (`dir`, `def`, `log`, `results`, `tmp`) and requests on threads (`job`). A step is one access to the file system; between two, another request may run or the server may crash. A torn write is the head of a line without its tail. `import` and `create` take no lock, as in the code. |
| `CommandLine` | cli.rs, render.rs | Runs that write to one destination through a temporary file of their own: refuse, resolve, write, rename, fail, be killed. |
| `GridWindows` | frontend/src/windows.ts | The hook's windows, the two reads in flight, the pump, its timer and retries, and queries that start at any time. |
| `RemoteEngine` | engine/remote.rs, render.rs | Calls of one engine to a server that is replaced, is down, compresses, or is something else. |
| `DesktopLauncher` | desktop.rs, bin/lakeleto-desktop.rs | Read the record, probe, pick a port, record, bind, serve, clear. |

The server:

| Module | Of | State and steps |
|---|---|---|
| `HttpServer` | api.rs, confine.rs, engine/registry.rs | `req` has a record for each request: authorize, check each path, admit to an engine, work on a thread; an answer is whole, or a stream of chunks through `channel` that a client reads or leaves. Writers add files to tables between the check and the read; a workspace may be deleted. |
| `DatabaseEngine` | engine/database.rs | `cache` and `mutex` for each dialect, `pools` with the connections that are `out`, and the statements each `call` has to make. A pool is opened and an evicted one is closed under the mutex. |
| `QueryServer` | api.rs with engine/database.rs | The two composed: a request over databases is a call of the engine, next to those of programs that embed it and bring credentials. |
| `Locations` | source.rs, catalog/path.rs, objstore.rs | What a place is to the browser that lists it and to the reader that opens it, and as whom a store is asked. |
| `CatalogStorage` | catalog/vended.rs, rest.rs:685-729 | Whose credentials read a table, and their renewal. A property is a key and the source it came from; its value is its origin and its age. One family of properties (S3) stands for all. |

Catalogs and stores:

| Module | Of | State and steps |
|---|---|---|
| `CatalogLogin` | catalog/rest.rs:467-618 | `send`, `bearer`, `exchange`: every await ends a step; `kept` is `State.token`. The provider and the catalog's view of a token are external. |
| `CatalogBrowse`, `CatalogNames` | catalog/registry.rs, rest.rs, reference.rs | A walk through a catalog by the names it shows, page by page, while it changes. Names are sequences of bytes, as escaping depends on them. |
| `CatalogSettings` | catalog/config.rs | A file, the environment over it in any order, and the check of each catalog. |
| `ObjectReads` | objstore.rs, format/json.rs | Readers that look an object up and make passes over it; what is learned is remembered by version and identity. |

Tables:

| Module | Of | State and steps |
|---|---|---|
| `GridScan` | engine/sql.rs, sql/*, format/json.rs | `Read` is the choice among plans: sorted in one pass, in two for a deep window (sample, then a band), probed in parallel with an untied window, in order on one partition, in file order, and streamed with sampled types, one retry and a check at the end. `Numberings` is the set of orders a plan may number rows in. |
| `ColumnFilter` | engine/mod.rs, sql.rs, database.rs | A column filter as Arrow kernels, as DataFusion's SQL and as a database's. |
| `DeltaLog` | engine/delta.rs:211-345 | List, look up, list again, read one commit at a time, refuse or keep; writers and log clean-up are external and run between any two steps. `LastAmong` says what a table holds without replaying it. |
| `IcebergTable`, `LocalScan` | iceberg.rs, engine/local.rs | Tables as their writers leave them; how a reader finds the metadata, plans a snapshot and reads it file by file, while snapshots expire. |
| `IcebergPrune` | iceberg.rs | Which files and row groups a filtered scan leaves out, and what their writer recorded of them. |
| `IcebergSchema` | iceberg.rs | Columns that are added, dropped, renamed and promoted, and files written under each schema. |
| `Datasets` | engine/local.rs, flatten.rs, sql.rs | A directory of files read as one table, and its struct columns as columns. |
| `FileReads` | format/{csv,arrow,codec,mod}.rs, engine/local.rs | A read that opens its file more than once, while the file is replaced. |

How they are instantiated. Four modules compose the parts that share a run: `MCPrograms`,
`MCServer`, `MCReads` and `MCCatalogs`. In each, a variable `part` says which component a
behaviour is about; the variables of the others keep one parked value, and a step is a step of
that component. The parts do not interact there, so that what is checked of each is what a run
of its own would check; components that do interact are composed by a module of their own
(`QueryServer`, `LocalScan`) that has joint steps. The parts of which a run's property is proved
are extended, and their properties are the very definitions that the theorems state, so that
they hold of a parked part as well: `McpSession`, `WorkspaceStore`, `CatalogStorage`,
`CommandLine`, `RemoteEngine` and `McpTools` in `MCPrograms`; `QueryServer`, `GridWindows` and `Locations`
in `MCServer`; `CatalogLogin`, `CatalogSettings` and `ObjectReads` in `MCCatalogs`; `GridScan`,
`DeltaLog`, `IcebergSchema` and `FileReads` in `MCReads`. The others are instantiated, and a property of theirs is stated as
`part = "..." => ...`. `MCGrid`, `MCIcebergTables`, `MCInputs` and `MCCatalogInputs` hold small
inputs; `MCIceberg` gives one component its instance for two runs that expect a violation.

Mutants stand before the definitions they change (`KeepForNow` before `Keep`), marked by a
comment.

## 3. The runs and what they show

States are distinct states (up to the violation, where one is expected, so that they vary a little),
times are of two workers.

| Run | Module | States | Time | Shows |
|---|---|---|---|---|
| `programs` | `MCPrograms` | 1,350,461 | 2:25 | *session*: a request is settled once and by its own result, threads stay within the limit, and the session implements its promise; *store*: what is stored stays and what is removed stays removed, no record without its result once the result that follows it is sent, no record taken from its file, through a crash and a full disk; *cli*: the file of `--out` is what one run wrote whole, with its permissions, and nobody's temporary file is taken; *tools*: pages are the table within both limits, exact statistics are; *remote*: results and failures are the server's; *vended*: renewed credentials are the table's, and none is handed out that is older than the one there was |
| `server` | `MCServer` | 374,760 | 1:35 | *server*: statements run as their caller, pools are sound, files are confined, answers are whole, runs are recorded, every request ends; *place*: listings and reads agree on what a place is, and stores are asked as the caller; *windows*: the grid shows the rows of one query and is never stuck |
| `reads` | `MCReads` | 2,218,420 | 2:00 | *grid*: windows are slices of one order, totals are exact, types hold the file; *delta*: plans are the table at a moment; *iceberg*: a read is one snapshot, pruning loses no row and filters agree in three engines, but for what 8 tells; *schema*: columns keep their values; *dataset*: a directory is its files; *file*: reads and their failures are true |
| `catalogs` | `MCCatalogs` | 282,076 | 2:25 | *login*: a refused token stays refused, calls end; *browse*: a listing is whole or says that it is not, and opens; *settings*: the environment wins; *objects*: a read is of one version and ends; *session*: every request is settled and a closed session ends, whatever its threads do |
| `workspace_import` | `WorkspaceStore` | 2,678 | | violation, see 8 |
| `history_fragment` | `WorkspaceStore` | 20,081 | | violation, see 8 |
| `desktop` | `DesktopLauncher` | 749 | | violation, see 8 |
| `grid_schema` | `MCGrid` | 97,438 | | violation, see 8 |
| `iceberg_pruning` | `MCIceberg` | 54,780 | | violation, see 8 |
| `iceberg_columns` | `IcebergSchema` | 2,619 | | violation, see 8 |
| `iceberg_bounds` | `MCIceberg` | 28,754 | | violation, see 8 |
| `dataset_shadow` | `MCReads` | 143,820 | | violation, see 8 |

Every property of a passing run is shown to depend on the code: for each there is a mutant of a
mapped definition, a plausible mistake in that code, with which TLC finds it violated in the
same run (`mutants` in `PROJECT.json`).

`CHECK_DEADLOCK FALSE` is said where a part really stops: a read that is done (`reads`), a call
or a walk that is over (`catalogs`), requests that are answered and a grid that is left alone
(`server`). In `programs` every
part has a step for the rest it may come to (`Ended`, `Quiet`), so deadlock is checked.

## 4. Bounds

- *Session.* Two ids and three requests let an id be reused while an older call of that id still
  runs, and let a third call meet both the slot limit and a duplicate id. One tick is enough for
  a deadline to come before, between or after other events. `MaxInbox` bounds the lines a client
  is ahead of the loop, not the reports of threads. The liveness run has two requests, one slot,
  every kind of line and a client that may hang up.
- *Store.* Two requests are a lock holder and one that waits, or one that takes no lock; both
  take new requests again and again, and the theorems (6) are for any number. Workspaces share
  only the id space, and ids are not reused, so one workspace is enough. One crash and one failed
  write fall anywhere. A record comes from a run here, from a push (result first), or from a client
  that sends it ahead of its result, which may never follow.
- *Command line.* Two runs of eleven invocations: every format, engine and destination.
- *Tools.* Limits of two and three rows and fifteen bytes, so that either may cut first.
- *Windows.* Windows of two rows, three kept, two in flight, two queries of one table and one of
  another, three scrolls, one failure. A table does not change while it is shown.
- *Remote.* A cap of three bytes with three rows: a response ends below, at and above it.
- *Server.* One request at a time of twelve kinds, next to two embedding programs, with one pool
  and one connection: every call contends for the pool and evicts another's. The proofs (6) are
  for any number of requests.
- *Vended.* Three requests are needed for one to be overtaken by two; what this machine and the
  configuration have set is nothing or everything.
- *Login.* Each call logs in at most twice (proved), so four tokens are all two calls can be
  issued.
- *Browse.* Two trees of five entries, with names that need escaping, against caps of three
  entries and four pages; names come and go. An entry is opened once for each listing.
- *Delta.* Two commits behind the first give every pair of actions on a file; a cache of one is
  full with the other table's plan. The proofs are for any number.
- *Grid.* Four rows with two keys, a null and a filtered row contain ties at each edge of a
  window of at most two; not every combination is in the instance (`MCTables`). A streamed
  table has at most two rows, or three that differ. `DeepRows`,
  `SampleRows`, `Margin` are scaled down (from 50,000 rows and a sample of 65,536) so that a
  window is deep and a band may miss it; `InferRows` is 1 so that types are often too narrow.
- *Iceberg.* Files of two row groups, two commits; a table for each kind of column that a bound
  is kept of. There are two of instants in UTC: one whose texts are in the order of the instants,
  and one (10Z and 10.5Z) whose are not. Of the second `ScanIsComplete` says nothing where a filter
  is asked for, and `iceberg_bounds` shows why. Left out: years past 9999, whose text begins with a
  sign and is out of order in the same way, and an identity partition of a floating-point column.
- *Datasets, files.* Up to three files with columns in common, in another order or type, or a key
  of a directory that is a column elsewhere; files of up to four rows, a cap of four bytes, one
  replacement, one broken connection. The replacement may fall between the two times an Arrow
  object is looked up, for its schema and for its count.

## 5. Fairness

- `MCPrograms`, `MCReads`: safety only. (`KeepsPromise` is the promise's safety; that requests
  are settled is checked in `catalogs`, where the session is a part.)
- `MCCatalogs`: weak fairness of each login call's and of each reader's own steps. An exchange
  and a request have timeouts (catalog/rest.rs:587-601), so each await ends, with an error at
  worst; a provider may refuse every token, and a store may end every request. Weak fairness of
  the session's `Loop`, a thread that blocks only in `recv_timeout`, whose timeout is the next
  deadline, and of `Tick`: time passes. *None* for its client, nor for a call's thread: it need
  never return, and every request is settled all the same. A behaviour is about one part, so
  that a condition on `First` and one on `Second` serve each part's two processes.
- `MCServer`: weak fairness of a request's own steps (its thread or task runs), of its client,
  which reads the stream or hangs up, and of a statement's execution (the database answers). The
  code has no deadline around a client that does neither; that is the one thing assumed of the
  outside, and it is said in the comment of `EveryRequestEnds`. None for writers, nor for new
  requests.

## 6. The proofs

Proved for all values of the constants, from the named assumptions on the constants alone:
`SessionAssumption`, `LoginAssumption`, `ServerAssumption`, `DeltaAssumption`, `GridAssumption`,
`StoreAssumption`, `StorageAssumption`, `CliAssumption`, `RemoteAssumption`, `WindowsAssumption`,
`ObjectAssumption`, `LocationsAssumption`, and for the engine alone `EngineAssumption`, which
`ServerAssumption` implies (`EngineIsFit`). `ToolsAreTrueAlways`, `EnvironmentWinsAlways` and
`FileReadsAreTrueAlways` have theirs, `ToolsAssumption`, `SettingsAssumption` and
`FilesAssumption`, as a hypothesis; `MCPrograms`, `MCCatalogs` and `MCReads` assume them of the
values they give. Most of them only say of what type a constant is; the
ones that say more are explained in section 7. `ColumnsKeepTheirValuesAlways` has a hypothesis,
`~Reuses`: that no name of a column that files have is given to another column. Where one is, the
property does not hold, which is what the run `iceberg_columns` shows. TLC evaluates each `ASSUME`
in a passing run, and every inductive invariant was checked by TLC before it was proved.

`Clients_proofs`, `Catalogs_proofs` and `Tables_proofs` each have the proofs of several
components, in parts that do not depend on each other.

| Theorem | States | Property of a run |
|---|---|---|
| `McpSession_proofs!TypeCorrect`, `ThreadsAreBounded` | types; the limit on threads | `TypeOK`, `ThreadsBounded` |
| `McpSession_proofs!RequestsSettleOnce`, `AnswersAreRight`, `CancellationNamesOneCall` | one answer, by the right call; ids of pending calls differ | `SettledOnce`, `RightAnswer`, `PendingIdsDiffer` |
| `McpSession_proofs!NothingIsOwedAtExit`, `SessionKeepsPromise` | the session implements `McpPromise` | `NothingOwedAtExit`, `KeepsPromise` |
| `McpSession_proofs!ToolsAreTrueAlways` | an agent's pages are the table's rows; results keep within their limits and say when they were cut; queries and statistics are shown as they are | `ToolsAreTrue` |
| `Catalogs_proofs!TypeCorrect`, `RefusedForGood` | at most two logins a call; a refused token stays refused | `TypeOK`, `RefusedStaysRefused` |
| `DatabaseEngine_proofs!TypeCorrect`, `RunsAsTheCaller`, `PoolsStaySound` | the engine on its own | (stated of the server below) |
| `QueryServer_proofs!ServerRunsAsItsCaller`, `ServerPoolsAreSound` | the same while requests and embedding programs share the engine | `RunsAsItsCaller`, `PoolsAreSound` |
| `QueryServer_proofs!ServerTypeCorrect` | types of requests and engine | `TypeOK` of `QueryServer` |
| `QueryServer_proofs!FilesAreConfined` | nothing outside the root is opened | `ServedIsConfined` |
| `QueryServer_proofs!AnswersAreWhole` | a body that ends well has every row | `AnswerIsWhole` |
| `QueryServer_proofs!RunsAreInTheHistory` | a run is recorded exactly if it was executed, or is answered with the error of the store that did not take it | `RunsAreRecorded` |
| `Tables_proofs!TypeCorrect`, `PlansAreTheTable` | a plan is the table at a moment of the call; a refusal has a cause | `PlanIsTheTable` |
| `WorkspaceStore_proofs!StoreTypeCorrect`, `WhatIsStoredStays` | a whole workspace can be loaded until its removal begins; what is removed does not come back | `StoreTypeOK`, `StoredStays` |
| `WorkspaceStore_proofs!HistorySaysWhatWasRecorded` | a cached record has its result once both are sent; a recorded run stays in its file as a whole, and in the history unless a failure left a fragment before it | `HistoryIsSound` |
| `Clients_proofs!RenewedCredentialsAreSound` | a renewed credential is the table's, and never older than the one that was current | `RenewalIsSound` |
| `GridScan_proofs!TypesHold` | types hold every value of the file; a scan fails over a value for a cause | `TypesFit` |
| `GridScan_proofs!CountsAreExact` | a total is that of a content of the file | `CountIsExact`, in `GridIsTheFile` |
| `Tables_proofs!ColumnsKeepTheirValuesAlways` | a column shows what was written to it, where names are not reused | `ColumnsKeepTheirValues` |
| `Tables_proofs!ReadIsOfTheTableAlways` | the snapshot read was the table's, and never one that lost its race | `ReadIsOfTheTable`, in `ReadIsOneSnapshot` |
| `Clients_proofs!OutputIsWholeAlways` | the file of `--out` is what one run wrote, whole | `OutputIsWhole` |
| `Clients_proofs!RemoteIsTheServersAlways` | what the remote engine returns is the server's | `RemoteIsTheServers` |
| `Clients_proofs!GridShowsTheTableAlways` | the grid draws one query's rows at their places, and is never stuck | `GridShowsTheTable` |
| `Catalogs_proofs!ReadsAreTrueAlways` | a read of an object is of one version, and goes by its own identity's knowledge | `ReadsAreTrue` |
| `Catalogs_proofs!PlacesAreTrueAlways` | a place is opened as it is labelled, and asked for as the caller | `PlacesAreTrue` |
| `Catalogs_proofs!EnvironmentWinsAlways` | a catalog is used with what its variables set, else with what the file has | `EnvironmentWins` |
| `GridScan_proofs!FileReadsAreTrueAlways` | what a read of one file says is so, of the version it was looked up at; a count and a schema are of one version if the file was not replaced between | `FileReadsAreTrue` |

**`McpSession_proofs`.** Types and the limit follow from `TypeOK /\ SlotInv`: `SlotInv` says
that the atomic `running` equals the number of threads that hold a slot. Without it the bound is
not inductive: `Busy` reads the counter, the property counts threads. The others follow from
`AnswerInv`, which says where a request can be: on the channel (`LinesOwed`), in one call
(`CallsOwed`), or settled. Whatever settles a request takes it out of the one place from which
anything else could settle it. Ids do not occur in the argument, which is why their reuse does
no harm; `IdInUse` is needed for `CancellationNamesOneCall` only.

Its refinement of `McpPromise` rests on `ChannelInv` (no line follows the end of stdin on the
channel) and `OwedInv` (what is owed is on the channel or in a pending call): a loop with a
closed channel and no pending call owes nothing. `InitRefines` and `StepRefines`, one case for
each action, make the refinement.

**`McpSession_proofs`: the tools.** What `fit` keeps is a number of leading items of which it is
only known that they fit and that one more does not (`Fit`); that there is one rests on the sum of
no items being 0 and on the first number of items that does not fit (`ResultIsCut`). Sizes may
come in any order and sums need not be compared with each other. Its place in the table says
what a page holds: a page that is not cut ends where the table ends, because one row more than
asked for was read (`PreviewIsTrue`), and one that is empty and cut stands before a row that fits
no page. The invariant (`ToolsInv`) is that what the agent has is a prefix of the table
(`Paged`), and that the last answer is true (`AnswerIsTrue`); the statistics are true of every
table, whatever was called (`StatisticsAreTrue`).

**`Catalogs_proofs`: the login.** The properties are not inductive alone: a call that has logged
in holds an answer it has not stored, and storing it must not bring a dropped token back.
`AnswersAreNew` says that such an answer is nobody else's and was never dropped, which rests on
`OnlyIssued`, and that on the provider issuing each token once.

**`DatabaseEngine_proofs`.** Whom a statement runs as rests on a call's pool being that of its
URL, which holds the account (`OwnPool`); a pool found in the cache is, because it was put there
under its URL. That a cache has one open pool for each URL is not inductive: it needs that the
mutex of a dialect is held from the look-up to the insertion (`CallInv`), and that a pool that
waits to be inserted is open, in no cache, of a URL the cache does not have, and nobody else's
(`NewPools`), so that no other call can insert or close it meanwhile. `CacheInv` keeps the two
dialects' pools apart; `OutInv` bounds the connections that are out of a pool. `Inv` is the
conjunction.

**`QueryServer_proofs`.** The engine's steps are a part of the server's, so its invariant is
carried over by an `INSTANCE` of the engine's proofs for the callers of the server (`Proved`);
lemmas such as `SameWants` show that the two instances of the engine are one, definition by
definition. `HttpInv` is about the rest, one request at a time:
- `Sound` says by `Quiet`, `Whole` and `Open` what has been answered at each place: nothing; all
  of it at once; or a stream, of which the rows `written` are those the client has `got` and
  those in the channel. The marker `marked` is sent only behind the last row (`Open`), which is
  why a body that ends behind its marker has every row whatever the writer, the channel and the
  client do in between.
- `Recorded`: until a run is answered it is not in the history, and it is put there at the step
  that answers; or the store fails at that step (`AnswerUnkept`), and no result is answered.
- `Checked`: every path before `todo` was inside the root when it was checked, so what is opened
  is, unless the table has been added to since (`stale`); only tables and directories gain files
  (`Outsiders`).

**`Tables_proofs`: Delta plans.** `TableStep` shows that what a table holds after a commit,
which the model states by the last action on each file, is what the reader's rule (`Apply`)
makes of what the table held before it. A replay that began at any commit *agrees* with the
table on all it has noted (`Agrees`), and has noted all of it when it began at the first
(`NotedSoFar`). `DeltaInv` says so of every thread that replays; of a plan that is kept, that it
is the table after a commit no older than its fingerprint (`CacheIsSound`): so a thread that
finds its own fingerprint in the cache gets the table as it was after that thread listed the
log, whoever made the plan and whatever has been committed in between. `PastIsFixed` is why
commits and clean-up disturb none of this. No induction over the log is needed: the invariant
carries the replay from commit to commit.

**`WorkspaceStore_proofs`.** `StoredStays` and `HistoryIsSound` speak of requests that have
returned; what makes them inductive is what each request under way may rely on, step by step
(`JobIsSound`): one past the lock holds it; one that makes a workspace writes into a directory
that has no definition yet and that nobody else knows (`Apart`), which is why it needs no lock;
one that has stored its result finds it there when it appends the record, and one in the middle
of an append finds the head of its own line last, unless the workspace is being removed or an
import, which takes no lock, has replaced the history (`raced`). That a line is broken only by a
write that failed or a crash is an invariant of its own (`Unbroken`). `DiskIsSound` and `LogIsSound`
say what the disk holds meanwhile; `StoreInv` is the conjunction with `StoreTypeOK`. Each step
of a request is shown to leave the others' part of it alone by one lemma, `StepKeeps`, from what
the step does to one workspace (`OthersStay`, `DiskStays`); a crash leaves no requests, and a
disk on which nothing that was said of it depends on one.

**`Clients_proofs`: credentials.** `RenewalIsSound` is about requests that have been answered.
`CallIsSound` says of one that waits that the generation it asked at (`since`) is one that has
been issued, and of one that holds a renewal it has not kept that it is of a later generation
than the one it asked at, and has no part of the configuration's; `CurrentIsSound` says the same
of the credential that is shared. So a request that stores its renewal over a newer one makes
the shared credential older, which the code allows, but is not itself handed one older than it
asked at.

**`GridScan_proofs`.** `TypesFit` and `CountIsExact` are about scans that are over; `GridInv`
says what is known at every stage of one. `TypesSoFar`: over a file that has not changed the
types never exceed those of the whole file, and equal them once a full pass over it has met no
row too wide, which the sample, the order, the count and the band each are. `Learned`: once a
pass has met one, the schema remembered *is* that of the whole file, unless another request has
narrowed or cleared it (`narrowed`), so the second attempt meets none; this is why one retry is
enough. `CountsSoFar`: what has been counted is the number of matching rows of a content the
file has had, and the count that comes with a window read in file order is that of the window's
own content. `Stages` says which stage can follow which. `OtherIsSound` and `KnownIsSound` bound
what other requests may make of the remembered schema. `InferredIs` (types of some rows are at
most those of all) is proved for any sequence of rows, by the least element of a set of naturals
(`LeastNatural`) in place of an induction.

**`GridScan_proofs`: one file.** `FilesInv` says at each step of a read of which version it is
about: the one it was looked up at, or, of a local file, a later one (`IsLater`). `Looked` ties the
version the read began with to the one of its schema and to the one it was last looked up at. What is remembered
of a version was learned of it or of one that has replaced it since (`KindsAreSound`), because a
file is looked at before it is read. The types of a delimited file hold every value of a version
that has no more rows than are asked for (`TypesFitFor`), so that a value that does not fit is
past the window. What the bytes come to is in two lemmas, `TakenIs` (what stops them is there to
stop them) and `WindowIsSlice` (whole batches through the end of the window have the window).
`OverlapIs`, that the parts of the batches inside of a window are the window, goes from batch to
batch: a recursive function that is not what it should be has a first batch at which it is not
(`LeastNatural` again), and none is (`CutIs`).

**`Clients_proofs`: the command line.** `OutputIsWhole` is about the file at the destination,
which only a rename changes. What a rename puts there depends on everything before it, so
`CliInv` says of each run at each step what its temporary file holds: `RunIsSound` ties what a
run has and knows to how far it is, and `TempIsSound` says that its file holds nothing but what
it has written, all of it before the rename, under the mode that goes with the step. Two runs
that draw one name are told apart by `create_new` alone: a name in `temps` has one owner, and a
run takes none that is there. The file of a run that was killed stays under its name, and
`Holds` says of every run under way that the file it is about to rename is there and its own.

**`Clients_proofs`: the remote engine.** `RemoteInv` follows each call through its steps
(`CallIsTrue`): what it sends is what was asked and names no database (`AsksAreSent`); what it
reads is a refusal, or an answer to just that ask with as many rows as are served for it
(`AnswersTheAsk`), whichever server it comes from; and a call that is over ends for the cause it
tells (`EndsTruly`). The heart is `ReceiveBody_Inv`: the engine reads one byte past the cap,
which tells a body that is over it from one that ends at it, and what is not over it is there to
its last byte, so that an answer is either decoded whole or refused.

**`Clients_proofs`: the grid.** `GridShowsTheTable` says three things of which the last is hard:
while a window in view is missing, something is due that asks for it. `GoesOnReading` is its
inductive form: a request on its way, a retry whose time is set, or the first window of a query.
It holds because of what a pump does (`PumpSends`, stated of any read and not of a state): the
windows it sends are the first ones in the order `Sooner`, so that if fewer are sent than may be
on their way, all that were due were sent; and among the windows it does not send because they
have failed, one is the first that may be asked for again, at whose time it sets the retry. Both
are arguments by a least element of a finite set, in place of an induction. `ReadIsSound` keeps
what is shown within one query: rows are the table's at their places; windows that are whole
`Fill` the count, so that an extent never passes the end of a table; requests of this generation
are the first one, which is awaited, or ask for windows of what is shown (`RequestIsSound`), so
that an answer that comes late is of another generation and is not taken; and `inflight` has
just the windows that are asked for.

**`Catalogs_proofs`: objects.** `ReadIsTrue` says at each step of a read that what it has taken
is of the version it looked up, in order and without a gap, and that what it goes by was learned
of that version by its own identity; `Filed` says of everything that is remembered that it was
learned of the version it is filed under, by somebody of the scope it is filed under. That a
scope is one principal is `ScopesTell`, and rests on `ObjectAssumption`.

**`Catalogs_proofs`: settings.** `SettingsInv` follows the variables as they are applied, in any
order (`AppliedSoFar`): the ones applied are over the file, and where none of a setting has been
the file's value is still there. Applying one disturbs no other, since the name of a variable
reads back as one catalog and one key (`EnvKey`), so that distinct settings have distinct
variables.

**`Catalogs_proofs`: places.** The listing and the reader decide apart what a place is, the one
by what is below it, the other by what it finds at it. `PlacesInv` says that they agree of every
entry listed (`EntryIsTrue`) and of what was opened last (`AnswerIsTrue`), and that a store is
asked as the caller (`AsksAsTheCaller`), in a world that does not change between the two. The
lemmas are about paths: what is below a place below another is below that.

**`Tables_proofs`: columns.** `ColumnsKeepTheirValues` is about a read and the ids files were
written with; `SchemaInv` is about the writers. No two columns of the current schema have one
name or one id (`SchemaIsSound`), and a column of the schema that has the name of one in some
file has its id (`FileIsSound`). So where a file has ids and none is the column's, none of its
names is, and falling back to names finds nothing. Each change of the schema keeps this because a
name it brings in is in no file: this is what `~Reuses` is needed for.

**`Tables_proofs`: snapshots.** `IceInv` is about the directory that metadata is found in
(`DirectoryIsSound`: no file has a version newer than the head's, and neither the head nor the
hint names a snapshot that lost) and about a call (`CallIsOfTheTable`): among the files that tie
for the highest version, one is of the table, because the head was there when they were listed.
A call that goes on because they agree has therefore chosen the table's snapshot, although it
cannot know which of them that was. What it chose is at least as new as what was there when it
started, since versions only grow and snapshots are only added (`Grows`).

Only model-checked, and why:
- `EveryRequestEnds`, `CallsEnd`, `SessionSettles`: liveness under fairness, which this prover
  does not reach.
- `WindowIsASlice`, the other half of `GridIsTheFile`: that two sorts of the same rows agree, or
  that a band of a sorted sample brackets a window, is induction over the sorted sequence, and
  the operator that sorts is evaluated by TLC and not defined for the prover.
- The types of `GridScan` beyond those in `GridInv`, in `ReadsTypeOK`: that widths and counts
  keep within the largest of the tables says something of the finite instance only.
- The other half of `ReadIsOneSnapshot`, and `ScanIsComplete`: that the rows read are those of the
  snapshot goes through folds over manifests, files and row groups, which takes induction over
  data; so does `DatasetIsItsFiles`, over files and their rows.
- `FiltersAgree`, `BrowseIsTrue`: they compare what recursive definitions compute of text
  (patterns, escapes).

## 7. Assumptions

- An identity provider issues no token twice.
- A process may crash; the machine does not lose what a completed write has put in a file. The
  code does not `fsync`, and power loss is not modelled.
- One server process uses a workspace store (the locks are in memory).
- A directory listing is one step. Commit files of a Delta log appear whole and are not written
  again.
- A Delta writer that gives a file a deletion vector removes the file and adds it again, in this
  order, in one commit (engine/delta.rs:296 depends on it).
- One pass over a local file reads one content of it: files are replaced whole, by a rename, and
  a replaced version does not come back. Versions are told apart; a file that is replaced by one
  of the same size within one tick of the file system's clock would not be.
- The sample of a deep window may be any subset of the rows of the right size: the hash that
  draws it is not modelled.
- Iceberg writers follow the format, as do those of Parquet footers; a statistic may be missing.
- A database compares text in its `LIKE` without case where the engine asks it to, and coerces
  text to numbers as the engines' documentation says (external, in `ColumnFilter`).
- A private scope of the object store is one value of its options and the clones of it
  (objstore.rs:380-391); a label a program declares for a scope stands for one principal
  (objstore.rs:317-343), and is none that the module makes up (`ObjectAssumption`).
- The entries of a bucket are objects, never directories, and links are left out
  (`LocationsAssumption`).
- A run of the command line is none of the names that stand for nobody, and draws at least one
  name (`CliAssumption`); a request for what a server is names no source (`RemoteAssumption`).
- The names of settings can be spelled in a variable's, and a variable of another kind sets no
  key that is asked for (`SettingsAssumption`). The batches of an Arrow file have its rows, and
  only text is compressed around its format (`FilesAssumption`).
- A table has a column, an item of an answer takes at least a byte, a footer that records a count
  of nulls records the right one, and no two columns of a query's answer have one name: where
  two do, a row of `query` shows the last of them for both (`ToolsAssumption`; mcp/tools.rs:587).
- While the grid of the web UI is looked at, the table stays what it is; the server's answers
  may come late, in any order, or not.

## 8. Where the code and its words differ

Each of these is a run that expects a violation; the finding in `PROJECT.json` quotes both sides.

- `workspace_import`: "an append-only history of runs" (workspace.rs:4-6). `import` makes a
  workspace visible before its history is written, and then replaces the file
  (workspace.rs:457); a run recorded in between is lost. `HistoryIsSound` excepts the histories
  an import has replaced.
- `history_fragment`: writers are serialized so that "history lines" stay "unfragmented"
  (workspace.rs:209-210). An append that stops half way (a full disk, a crash) leaves the head of
  a line; the next append goes behind it, whatever the file ends in (workspace.rs:376-380), the two
  are one line that does not parse, and `history` passes over it (348-351): a run whose recording
  was acknowledged is not shown. `HistoryIsSound` says that its record is still in the file, and
  that this happens only where a write has failed or the server has died.
- `desktop`: double-clicking twice "must not start a second server" (desktop.rs:12-13). Nothing
  is held between the probe and the bind (desktop.rs:79), and two launches may both serve.
- `grid_schema`: "its schema only ever widens" (format/json.rs:184-185). `read_rows` stores the
  schema it has inferred without looking at the one another read has stored since (json.rs:216).
  What a query answers stays right (`TypesHoldTheFile`), but one that is planned again can fail
  on a file that has not changed: `FailsForCause` names this as a cause.
- `iceberg_pruning`: "dropped ONLY when its statistics PROVE it contains zero matching rows"
  (iceberg.rs:1242-1243). After a table's partitioning has changed, a file's old partition value
  is compared with the new transform (iceberg.rs:1593). `ScanIsComplete` is about tables with
  one partitioning.
- `iceberg_bounds`: the same sentence. The bounds of a timestamp are turned into text and compared
  by their bytes (iceberg.rs:1302-1324, 1356-1365). An instant in UTC prints with as many digits of
  a fraction as it needs and a `Z` behind them, so that 10.5Z is before 10Z as a text: a file of
  10Z and 10.5Z seems to have bounds the wrong way round, and is dropped for filters that its rows
  pass. The row filter compares the same texts (engine/mod.rs:1045-1050), so it agrees with itself
  but not with DataFusion, which compares the instants; and the least and the greatest value of a
  column's profile are those of the text, which engine/mod.rs:782 calls "correct for ISO
  dates/timestamps". `ScanIsComplete` and `FiltersAgree` except instants in UTC whose texts are not
  in their order (`BoundsPrintInOrder`, `PrintInOrder`), and nothing else of that kind.
- `iceberg_columns`: "falling back to name when the file carries no field-ids"
  (iceberg.rs:733-735). A column is looked up by name also in a file that has ids
  (iceberg.rs:748), so one that takes the name of a dropped column shows that column's values in
  older files. In `reads` names are not reused.
- `dataset_shadow`: "A partition key that collides with a real data column is dropped ..., so
  partition names never shadow data" (engine/local.rs:483-484). A key is compared with the columns
  known when it is met (521-525); the columns of later files are not compared with the keys, so a
  directory `k=1` before a file with a column `k` leaves two columns `k`. `NamesAreDistinct`
  excepts just this case (`LateShadow`).

Others are of the same weight and have no run; `findings` quotes both sides of the first four:
- "Vended means the catalog sent it" (catalog/vended.rs:93-95). A credential the catalog vends
  without a session token is completed with the session token configured on this machine
  (vended.rs:99). `RenewalIsSound` is about renewed ones.
- "from the Parquet footer: exact for the whole file" (mcp/tools.rs:395). Row groups that recorded
  no statistics are left out of the bounds, and count as without nulls (engine/local.rs:690).
  `StatisticsAreExact` is about files in which every row group that records any records all.
- "Infer over at least the rows read" (format/csv.rs:196-197). Whole batches are decoded, past the
  rows the types were inferred from (csv.rs:198), and a value there fails the read
  (`FailsForItsCause` allows it).
- "`append_run(rec, result)` - `POST .../history` (the record), then ... `PUT .../result`"
  (workspace_remote.rs:13-14). The code sends the result first (151-162). The API takes either
  order (api.rs:1562-1564), and so does `WorkspaceStore`: `CachedMeansStored` excepts a record that
  was sent ahead until its result is acknowledged.
- When the store fails to take the record of a run (api.rs:1535, 1553), the run's own outcome is
  not told: the answer is the store's error, and the history may lack the run, or have it
  (`AnswerUnkept`; `RunsAreRecorded` excepts it).
- The schema and the row count that are shown together are looked up apart (engine/local.rs:305-307,
  1474-1482), each with a version of its own: when an object is replaced in between, the count is
  of the newer version beside the older schema, and no error is told (`CountIsOfTheSchema` is about
  reads during which the file was not replaced).
- Whether a namespace is there is asked for its status only (catalog/rest.rs:319-320), so that a
  refusal or a failure of the catalog is told as "no table" (catalog/registry.rs:251-254).
  `OpenedIsThere` takes that answer to say nothing of a namespace.

Smaller ones met on the way, of which no run is made: a catalog whose name holds `--` or ends in
`-` has no variable of its own (catalog/config.rs); a link to a directory is listed as a file's
kind by `DirEntry::metadata` and opened as a directory; a call whose deadline passes while the
body of a remote answer is read is reported as a failure of the server, not as cancelled
(error.rs:75); an unreadable directory of a dataset is passed over in silence; a dataset is listed
once for its schema and once for its rows (engine/local.rs:486, 551), so a file added in between is
in one and not in the other.

## 9. What is not modelled

- Parsers and encodings (Avro, Thrift, JSON, TOML, SQL), value conversions, the wording and
  layout of output, time zones: data transformations that no property here depends on.
- The tray menu, the clipboard, the CLI link, the web page's assets, packaging: I/O without
  state.
- DataFusion, sqlx, object_store, tokio, arrow: libraries, of which only what the code relies on
  is assumed. What DataFusion does with a plan is taken from the plan's requirements: a sort
  without a tie-break yields any order that agrees with the keys.
- `export` of a workspace reads the definition and the history without the lock; nothing says
  that a bundle is a snapshot.
- Two calls that fetch the configuration of one catalog at once (catalog/rest.rs:327): the
  answers are the same unless it is reconfigured between them.
- A directory listing that misses a commit older than one it shows (engine/delta.rs:661).
- The event loop of the desktop shell, which notices a dead server thread on its next event.
- The mode of a temporary output file before it is made private, and a `chmod` by somebody else
  during its rename.
- Names that are the same for two columns of one result of a tool.

## 10. Plan

Done: all modules above, the runs, and the proofs of section 6. What is left would be, in this
order:

1. `WorkspaceStore` against an abstract store whose operations take effect at once, up to the
   import: the effect of a save is its rename, that of a run its append.
2. `GridScan`: an abstract window server that answers with a slice of one order, with the sort
   left as an operator of which the order is assumed, so that what remains to be shown of the
   probe and of the band is arithmetic on ranks.
3. `LocalScan`: the rows of a snapshot from the rows of its files, with the folds over manifests
   and row groups stated as functions, so that a read is followed file by file as a replay of
   `DeltaLog` is followed commit by commit.
