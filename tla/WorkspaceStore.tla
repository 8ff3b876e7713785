---------------------------- MODULE WorkspaceStore ----------------------------
(***************************************************************************)
(* The on-disk workspace store of `lakeleto serve` (src/src/workspace.rs)  *)
(* and the requests that use it at the same time (src/src/api.rs).         *)
(*                                                                         *)
(* A workspace is a directory with its definition, its run history, which  *)
(* is a file of one line per run, and the cached results.  Every request   *)
(* runs on a thread of its own.  `save`, `delete`, `append_run` and        *)
(* `put_result_bytes` hold the workspace's lock; `create`, `import` and    *)
(* the readers hold none.  A step is one access to the file system, so a   *)
(* crash, or another request, may come between any two.                    *)
(***************************************************************************)
EXTENDS Naturals, Sequences, FiniteSets

CONSTANTS
  Handlers,     \* request threads
  WorkspaceIds, \* the workspace ids that can be handed out
  Runs,         \* the run ids that can be handed out
  Imported,     \* the run in the history of every imported bundle, none of Runs
  Free,         \* the holder of a lock nobody holds, no thread
  MaxCrashes,   \* bound: crashes of the server
  MaxFailures   \* bound: writes that fail for want of space

\* A thread is not Free, and the bounds are numbers.
ASSUME StoreAssumption == Free \notin Handlers /\ MaxCrashes \in Nat /\ MaxFailures \in Nat

VARIABLES
  dir,       \* the workspaces that have a directory
  def,       \* workspace.json: "none", "part" or "whole"
  log,       \* history.jsonl: the pieces written to it
  results,   \* the runs with a file under results/
  tmp,       \* the temporary files in the directory: whose, or left behind
  lock,      \* the holder of each workspace's lock
  job,       \* what each thread is doing
  used,      \* the ids handed out so far, workspaces and runs
  crashes, failures,
  born,      \* history: the workspaces whose definition has been written
  acked,     \* history: the runs whose append has returned
  doomed,    \* history: the workspaces whose removal has begun
  gone,      \* history: the workspaces whose removal has returned
  raced,     \* history: the workspaces whose import replaced a history
  ahead      \* history: the runs whose record says that they are cached and was
             \* sent before their result, until that is acknowledged

disk == <<dir, def, log, results, tmp>>
bounds == <<crashes, failures>>
ghosts == <<born, acked, doomed, gone, raced, ahead>>
storeVars == <<disk, lock, job, used, bounds, ghosts>>

\* A line of the history is written whole, or in two writes.  A record says
\* whether the run's result was cached.
Piece == [run: Runs \cup {Imported}, cached: BOOLEAN, part: {"whole", "head", "tail"}]

\* A temporary file, its writer's or one that a failure or a crash has left.
Temporary == Handlers \cup {"left"}

\* `todo` is what a removal has still to remove.
Item == {"def", "log", "results"} \cup Temporary
Idle == [op |-> "idle"]
Jobs ==
  {Idle}
    \cup [op: {"create"}, ws: WorkspaceIds, pc: {"store", "rename", "done"}]
    \cup [op: {"import"}, ws: WorkspaceIds, pc: {"store", "rename", "history", "attach", "done"}]
    \cup [op: {"save"}, ws: WorkspaceIds, pc: {"lock", "check", "store", "rename", "done"}]
    \cup [op: {"run", "put", "post"}, ws: WorkspaceIds, run: Runs, cached: BOOLEAN,
          pc: {"lock", "check", "result", "append", "rest", "done"}]
    \cup [op: {"delete"}, ws: WorkspaceIds, todo: SUBSET Item,
          pc: {"lock", "check", "remove", "done"}]

StoreTypeOK ==
  /\ dir \in [WorkspaceIds -> BOOLEAN]
  /\ def \in [WorkspaceIds -> {"none", "part", "whole"}]
  /\ log \in [WorkspaceIds -> Seq(Piece)]
  /\ results \in [WorkspaceIds -> SUBSET Runs]
  /\ tmp \in [WorkspaceIds -> SUBSET Temporary]
  /\ lock \in [WorkspaceIds -> Handlers \cup {Free}]
  /\ job \in [Handlers -> Jobs]
  /\ used \in SUBSET (WorkspaceIds \cup Runs)
  /\ crashes \in 0..MaxCrashes /\ failures \in 0..MaxFailures
  /\ born \in SUBSET WorkspaceIds /\ doomed \in SUBSET WorkspaceIds
  /\ gone \in SUBSET WorkspaceIds /\ raced \in SUBSET WorkspaceIds
  /\ acked \in SUBSET (WorkspaceIds \X Runs) /\ ahead \in SUBSET (WorkspaceIds \X Runs)

-----------------------------------------------------------------------------
StoreInit ==
  /\ dir = [w \in WorkspaceIds |-> FALSE]
  /\ def = [w \in WorkspaceIds |-> "none"]
  /\ log = [w \in WorkspaceIds |-> <<>>]
  /\ results = [w \in WorkspaceIds |-> {}]
  /\ tmp = [w \in WorkspaceIds |-> {}]
  /\ lock = [w \in WorkspaceIds |-> Free]
  /\ job = [t \in Handlers |-> Idle]
  /\ used = {}
  /\ crashes = 0 /\ failures = 0
  /\ born = {} /\ acked = {} /\ doomed = {} /\ gone = {} /\ raced = {} /\ ahead = {}

At(t, ops, pc) == job[t].op \in ops /\ job[t].pc = pc
Goto(t, pc) == job' = [job EXCEPT ![t].pc = pc]

\* The request returns, with an error unless it got to "done".
Return(t) ==
  /\ job' = [job EXCEPT ![t] = Idle]
  /\ lock' = [w \in WorkspaceIds |-> IF lock[w] = t THEN Free ELSE lock[w]]

Fail(t) == Return(t) /\ UNCHANGED <<disk, used, ghosts>>

\* The request fails and leaves a part of its temporary file.
FailAndLeave(t) ==
  /\ Return(t)
  /\ dir' = [dir EXCEPT ![job[t].ws] = TRUE]
  /\ tmp' = [tmp EXCEPT ![job[t].ws] = @ \cup {"left"}]
  /\ UNCHANGED <<def, log, results, used, ghosts>>

\* A client knows a workspace once `list` shows it, and may keep naming it.
KnownWorkspace(w) == def[w] = "whole" \/ w \in doomed

(***************************************************************************)
(* Requests arrive.                                                        *)
(***************************************************************************)
Begin(t, j) ==
  /\ job[t] = Idle
  /\ job' = [job EXCEPT ![t] = j]
  /\ UNCHANGED <<disk, lock, bounds>>

\* POST /v1/workspaces and POST /v1/workspaces/import: a fresh id, no lock.
BeginNew(t, op, w) ==
  /\ w \in WorkspaceIds \ used
  /\ Begin(t, [op |-> op, ws |-> w, pc |-> "store"])
  /\ used' = used \cup {w}
  /\ UNCHANGED ghosts

BeginSave(t, w) ==
  /\ KnownWorkspace(w)
  /\ Begin(t, [op |-> "save", ws |-> w, pc |-> "lock"])
  /\ UNCHANGED <<used, ghosts>>

BeginDelete(t, w) ==
  /\ KnownWorkspace(w)
  /\ Begin(t, [op |-> "delete", ws |-> w, todo |-> {}, pc |-> "lock"])
  /\ UNCHANGED <<used, ghosts>>

\* POST .../runs: the workspace is looked up before the query runs, and the
\* run is recorded after it.
BeginRun(t, w, r, cache) ==
  /\ def[w] = "whole" /\ r \in Runs \ used
  /\ Begin(t, [op |-> "run", ws |-> w, run |-> r, cached |-> cache, pc |-> "lock"])
  /\ used' = used \cup {r}
  /\ UNCHANGED ghosts

\* A server whose own store is this one (RemoteStore) records a run here: it
\* sends the result, and then the record.
BeginPush(t, w, r) ==
  /\ KnownWorkspace(w) /\ r \in Runs \ used
  /\ Begin(t, [op |-> "put", ws |-> w, run |-> r, cached |-> TRUE, pc |-> "lock"])
  /\ used' = used \cup {r}
  /\ UNCHANGED ghosts

\* POST .../history: a client that has run the query itself sends the record,
\* which is taken as it is.  It may say that there is a result ...
BeginPost(t, w, r, cache) ==
  /\ KnownWorkspace(w) /\ r \in Runs \ used
  /\ Begin(t, [op |-> "post", ws |-> w, run |-> r, cached |-> cache, pc |-> "lock"])
  /\ used' = used \cup {r}
  /\ ahead' = IF cache THEN ahead \cup {<<w, r>>} ELSE ahead
  /\ UNCHANGED <<born, acked, doomed, gone, raced>>

\* ... which the client then sends, if it gets to it: PUT .../result.
BeginPut(t, w, r) ==
  /\ KnownWorkspace(w) /\ <<w, r>> \in ahead \cap acked
  /\ Begin(t, [op |-> "put", ws |-> w, run |-> r, cached |-> TRUE, pc |-> "lock"])
  /\ UNCHANGED <<used, ghosts>>

(***************************************************************************)
(* What they do.                                                           *)
(***************************************************************************)

\* Mutant: writers do not wait for each other.
TakeNoLock(t) ==
  /\ job[t] # Idle /\ job[t].pc = "lock"
  /\ Goto(t, "check")
  /\ UNCHANGED <<disk, lock, used, bounds, ghosts>>

Take(t) ==
  /\ job[t] # Idle /\ job[t].pc = "lock"
  /\ lock[job[t].ws] = Free
  /\ lock' = [lock EXCEPT ![job[t].ws] = t]
  /\ Goto(t, "check")
  /\ UNCHANGED <<disk, used, bounds, ghosts>>

\* `save` and `put_result_bytes` load the definition, and fail without one.
CheckDefinition(t) ==
  /\ At(t, {"save", "put"}, "check")
  /\ \/ /\ def[job[t].ws] = "whole"
        /\ Goto(t, IF job[t].op = "save" THEN "store" ELSE "result")
        /\ UNCHANGED <<disk, lock, used, ghosts>>
     \/ def[job[t].ws] # "whole" /\ Fail(t)
  /\ UNCHANGED bounds

\* `append_run` is content with the directory.
CheckDirectory(t) ==
  /\ At(t, {"run", "post"}, "check")
  /\ \/ /\ dir[job[t].ws]
        /\ Goto(t, IF job[t].op = "run" /\ job[t].cached THEN "result" ELSE "append")
        /\ UNCHANGED <<disk, lock, used, ghosts>>
     \/ ~dir[job[t].ws] /\ Fail(t)
  /\ UNCHANGED bounds

\* A write finds no space.
OutOfSpace == failures < MaxFailures /\ failures' = failures + 1 /\ UNCHANGED crashes

\* Mutant: the definition is written in place.
StoreInPlace(t) ==
  /\ At(t, {"create", "import", "save"}, "store")
  /\ LET w == job[t].ws
     IN /\ dir' = [dir EXCEPT ![w] = TRUE]
        /\ def' = [def EXCEPT ![w] = "part"]
        /\ tmp' = [tmp EXCEPT ![w] = @ \cup {t}]
  /\ Goto(t, "rename")
  /\ UNCHANGED <<log, results, lock, used, bounds, ghosts>>

\* The definition goes to a temporary file ...
StoreDefinition(t) ==
  /\ At(t, {"create", "import", "save"}, "store")
  /\ LET w == job[t].ws
     IN \/ /\ dir' = [dir EXCEPT ![w] = TRUE]
           /\ tmp' = [tmp EXCEPT ![w] = @ \cup {t}]
           /\ Goto(t, "rename")
           /\ UNCHANGED <<def, log, results, lock, used, bounds, ghosts>>
        \/ OutOfSpace /\ (Fail(t) \/ FailAndLeave(t))

\* Mutant: a new workspace waits for a history it is not given.
RenameAndWait(t) ==
  /\ At(t, {"create", "import", "save"}, "rename")
  /\ def' = [def EXCEPT ![job[t].ws] = "whole"]
  /\ tmp' = [tmp EXCEPT ![job[t].ws] = @ \ {t}]
  /\ born' = born \cup {job[t].ws}
  /\ Goto(t, IF job[t].op = "save" THEN "done" ELSE "history")
  /\ UNCHANGED <<dir, log, results, lock, used, bounds, acked, doomed, gone, raced, ahead>>

\* ... which then takes the place of workspace.json.  Nobody removes the
\* directory meanwhile: a new id is not known yet, and `save` holds the lock.
RenameDefinition(t) ==
  /\ At(t, {"create", "import", "save"}, "rename")
  /\ def' = [def EXCEPT ![job[t].ws] = "whole"]
  /\ tmp' = [tmp EXCEPT ![job[t].ws] = @ \ {t}]
  /\ born' = born \cup {job[t].ws}
  /\ Goto(t, IF job[t].op = "import" THEN "history" ELSE "done")
  /\ UNCHANGED <<dir, log, results, lock, used, bounds, acked, doomed, gone, raced, ahead>>

\* An import then writes the bundle's history, to a temporary file as well ...
StoreHistory(t) ==
  /\ At(t, {"import"}, "history")
  /\ LET w == job[t].ws
     IN \/ /\ dir[w]
           /\ tmp' = [tmp EXCEPT ![w] = @ \cup {t}]
           /\ Goto(t, "attach")
           /\ UNCHANGED <<dir, def, log, results, lock, used, bounds, ghosts>>
        \/ ~dir[w] /\ Fail(t) /\ UNCHANGED bounds
        \/ OutOfSpace /\ dir[w] /\ (Fail(t) \/ FailAndLeave(t))

\* ... with every record marked as not cached.
AttachHistory(t) ==
  /\ At(t, {"import"}, "attach")
  /\ LET w == job[t].ws
     IN \/ /\ t \in tmp[w]
           /\ log' = [log EXCEPT ![w] = <<[run |-> Imported, cached |-> FALSE,
                                          part |-> "whole"]>>]
           /\ tmp' = [tmp EXCEPT ![w] = @ \ {t}]
           /\ raced' = IF log[w] # <<>> THEN raced \cup {w} ELSE raced
           /\ Goto(t, "done")
           /\ UNCHANGED <<dir, def, results, lock, used, born, acked, doomed, gone, ahead>>
        \/ t \notin tmp[w] /\ Fail(t)
  /\ UNCHANGED bounds

\* The result goes to its file, before the record that names it.
StoreResult(t) ==
  /\ At(t, {"run", "put"}, "result")
  /\ \/ /\ dir' = [dir EXCEPT ![job[t].ws] = TRUE]
        /\ results' = [results EXCEPT ![job[t].ws] = @ \cup {job[t].run}]
        /\ Goto(t, IF job[t].op = "run" THEN "append" ELSE "done")
        /\ UNCHANGED <<def, log, tmp, lock, used, bounds, ghosts>>
     \/ OutOfSpace /\ Fail(t)

Write(t, part) ==
  log' = [log EXCEPT ![job[t].ws] =
            Append(@, [run |-> job[t].run, cached |-> job[t].cached, part |-> part])]

\* The record is appended, in one write or with more to come.
AppendRun(t) ==
  /\ At(t, {"run", "post"}, "append")
  /\ \/ /\ \/ Write(t, "whole") /\ Goto(t, "done")
           \/ Write(t, "head") /\ Goto(t, "rest")
        /\ UNCHANGED <<dir, def, results, tmp, lock, used, bounds, ghosts>>
     \/ OutOfSpace /\ Fail(t)

\* The rest of a record.
AppendRest(t) ==
  /\ At(t, {"run", "post"}, "rest")
  /\ \/ /\ Write(t, "tail") /\ Goto(t, "done")
        /\ UNCHANGED <<dir, def, results, tmp, lock, used, bounds, ghosts>>
     \/ OutOfSpace /\ Fail(t)

\* What the directory holds.
Items(w) ==
  (IF def[w] # "none" THEN {"def"} ELSE {})
    \cup (IF log[w] # <<>> THEN {"log"} ELSE {})
    \cup (IF results[w] # {} THEN {"results"} ELSE {})
    \cup tmp[w]

\* remove_dir_all lists the directory, removes what it has listed ...
ListDirectory(t) ==
  /\ At(t, {"delete"}, "check")
  /\ LET w == job[t].ws
     IN /\ job' = [job EXCEPT ![t].todo = IF dir[w] THEN Items(w) ELSE {},
                              ![t].pc = IF dir[w] THEN "remove" ELSE "done"]
        /\ doomed' = doomed \cup {w}
  /\ UNCHANGED <<disk, lock, used, bounds, born, acked, gone, raced, ahead>>

RemoveItem(t) ==
  /\ At(t, {"delete"}, "remove")
  /\ \E item \in job[t].todo :
       LET w == job[t].ws
       IN /\ def' = IF item = "def" THEN [def EXCEPT ![w] = "none"] ELSE def
          /\ log' = IF item = "log" THEN [log EXCEPT ![w] = <<>>] ELSE log
          /\ results' = IF item = "results" THEN [results EXCEPT ![w] = {}] ELSE results
          /\ tmp' = [tmp EXCEPT ![w] = @ \ {item}]
          /\ job' = [job EXCEPT ![t].todo = @ \ {item}]
  /\ UNCHANGED <<dir, lock, used, bounds, ghosts>>

\* ... and then the directory, which fails if something has come in since.
RemoveDirectory(t) ==
  /\ At(t, {"delete"}, "remove") /\ job[t].todo = {}
  /\ LET w == job[t].ws
     IN \/ /\ Items(w) = {}
           /\ dir' = [dir EXCEPT ![w] = FALSE]
           /\ Goto(t, "done")
           /\ UNCHANGED <<def, log, results, tmp, lock, used, ghosts>>
        \/ Items(w) # {} /\ Fail(t)
  /\ UNCHANGED bounds

\* The request returns.
Finish(t) ==
  /\ job[t] # Idle /\ job[t].pc = "done" /\ job[t].op # "put"
  /\ Return(t)
  /\ acked' = IF job[t].op \in {"run", "post"}
              THEN acked \cup {<<job[t].ws, job[t].run>>} ELSE acked
  /\ gone' = IF job[t].op = "delete" THEN gone \cup {job[t].ws} ELSE gone
  /\ UNCHANGED <<disk, used, bounds, born, doomed, raced, ahead>>

\* The result is stored.  The record of a push follows, unless the reply is lost:
\* then the other server gives up.
FinishPut(t) ==
  /\ At(t, {"put"}, "done")
  /\ lock' = [lock EXCEPT ![job[t].ws] = Free]
  /\ LET sent == <<job[t].ws, job[t].run>>
     IN /\ ahead' = ahead \ {sent}
        /\ \/ /\ sent \notin acked
              /\ job' = [job EXCEPT ![t].op = "post", ![t].pc = "lock"]
           \/ job' = [job EXCEPT ![t] = Idle]
  /\ UNCHANGED <<disk, used, bounds, born, acked, doomed, gone, raced>>

\* The server dies, and is started again: what was being done is forgotten,
\* and nobody removes its temporary files.
Crash ==
  /\ crashes < MaxCrashes /\ crashes' = crashes + 1
  /\ \E t \in Handlers : job[t] # Idle
  /\ job' = [t \in Handlers |-> Idle]
  /\ lock' = [w \in WorkspaceIds |-> Free]
  /\ tmp' = [w \in WorkspaceIds |-> IF tmp[w] = {} THEN {} ELSE {"left"}]
  /\ UNCHANGED <<dir, def, log, results, used, failures, ghosts>>

\* No request is being served.
Quiet == (\A t \in Handlers : job[t] = Idle) /\ UNCHANGED storeVars

-----------------------------------------------------------------------------
Arrive(t) ==
  \E w \in WorkspaceIds :
    \/ \E op \in {"create", "import"} : BeginNew(t, op, w)
    \/ BeginSave(t, w)
    \/ BeginDelete(t, w)
    \/ \E r \in Runs :
         \/ BeginPush(t, w, r) \/ BeginPut(t, w, r)
         \/ \E cache \in BOOLEAN : BeginRun(t, w, r, cache) \/ BeginPost(t, w, r, cache)

Step(t) ==
  \/ Take(t) \/ CheckDefinition(t) \/ CheckDirectory(t)
  \/ StoreDefinition(t) \/ RenameDefinition(t) \/ StoreHistory(t) \/ AttachHistory(t)
  \/ StoreResult(t) \/ AppendRun(t) \/ AppendRest(t)
  \/ ListDirectory(t) \/ RemoveItem(t) \/ RemoveDirectory(t)
  \/ Finish(t) \/ FinishPut(t)

StoreNext == (\E t \in Handlers : Arrive(t) \/ Step(t)) \/ Crash \/ Quiet

StoreSpec == StoreInit /\ [][StoreNext]_storeVars

-----------------------------------------------------------------------------
\* A workspace that was once whole can be loaded until somebody removes it,
\* whatever is saved over it and whenever the server dies (workspace.rs:231-233,
\* 516).
DefinitionStays == \A w \in born \ doomed : dir[w] /\ def[w] = "whole"

\* The piece before position i of w's history ends its line.
LineStart(w, i) == i = 1 \/ log[w][i - 1].part # "head"

\* Run r has a record of its own: it is whole, or its head and its tail are one
\* line with nothing between them.
RecordAt(w, r, i) ==
  /\ log[w][i].run = r
  /\ \/ log[w][i].part = "whole"
     \/ /\ log[w][i].part = "head" /\ i < Len(log[w])
        /\ log[w][i + 1] = [log[w][i] EXCEPT !.part = "tail"]

\* `history` shows run r: it reads line by line and skips what does not parse.
Shown(w, r) == \E i \in DOMAIN log[w] : RecordAt(w, r, i) /\ LineStart(w, i)

\* Run r's record is in the file, after a fragment that a failed write left: the
\* two are one line, which does not parse.
Glued(w, r) == \E i \in DOMAIN log[w] : RecordAt(w, r, i) /\ ~LineStart(w, i)

\* A record in the history that says its result is cached has its result: a
\* crash, a full disk or a lost reply leaves a result without a record, never a
\* record without a result (workspace_remote.rs:151-153, api.rs:1532-1533).  The
\* record that a client sends ahead of its result (api.rs:1562-1564) has it once
\* the result is acknowledged.
CachedMeansStored ==
  \A w \in WorkspaceIds \ doomed : \A r \in Runs :
    Shown(w, r) /\ <<w, r>> \notin ahead
                /\ (\E i \in DOMAIN log[w] : log[w][i].run = r /\ log[w][i].cached)
      => r \in results[w]

\* The record of a run whose append has returned is not taken from the file, nor
\* broken up, but by a removal or an import (workspace.rs:206-210); and the
\* history shows it, unless a write has failed or the server has died, and left a
\* fragment just before it (LinesUnfragmented is about that case).
RunsKept ==
  \A w \in WorkspaceIds \ (doomed \cup raced) : \A r \in Runs :
    <<w, r>> \in acked => Shown(w, r) \/ (Glued(w, r) /\ failures + crashes > 0)

\* What the history says of a run is so, and what was recorded is in its file.
HistoryIsSound == CachedMeansStored /\ RunsKept

\* A removed workspace does not come back: not by a save or a run that was
\* under way, nor by an import that had not finished (workspace.rs:330-338).
RemovedStaysRemoved == \A w \in gone : ~dir[w] /\ Items(w) = {}

\* What was acknowledged holds: what is stored stays, and what is removed stays removed.
StoredStays == DefinitionStays /\ RemovedStaysRemoved

\* Violated: a run that was recorded is in the history until the workspace is
\* removed ("an append-only history of runs", workspace.rs:4-6).
HistoryAppendOnly ==
  \A w \in WorkspaceIds \ doomed : \A r \in Runs : <<w, r>> \in acked => Shown(w, r)

\* Violated: whatever fails, each line of the history is one record, so that the
\* history shows every run whose append has returned ("history lines
\* unfragmented", "every write is atomic", workspace.rs:206-210, 221-223).  After
\* a write that failed half way the next record joins its fragment (373-380).
LinesUnfragmented ==
  \A w \in WorkspaceIds \ (doomed \cup raced) : \A r \in Runs :
    <<w, r>> \in acked => Shown(w, r)
=============================================================================
