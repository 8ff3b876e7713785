------------------------------ MODULE CommandLine ------------------------------
(***************************************************************************)
(* One-shot runs of the command line: what a run refuses, which machine    *)
(* resolves its paths, and how its output reaches a terminal, a pipe or    *)
(* the file of `--out` (src/src/cli.rs: run, check_output, Sink, OutFile;  *)
(* src/src/render.rs: stream_rows).                                        *)
(*                                                                         *)
(* Several runs write to one destination at once.  A run may fail at any   *)
(* step, and be killed between any two.  A text is a sequence of pieces: a *)
(* header, each batch of the answer, a footer.                             *)
(***************************************************************************)
EXTENDS Naturals, SequencesExt, FiniteSets, TLC

CONSTANTS
  CliRuns,     \* the runs of the command line
  Invocations, \* [cmd, output, ext, out, terminal, engine, url, on]
  Built,       \* cargo features: subset of {"sql", "remote", "parquet-out"}
  Names,       \* what random_suffix draws from
  MaxDraws,    \* draws of a temporary name
  MaxBatches   \* bound: batches of an answer

VARIABLES
  dest,  \* the destination: nothing, a directory, or a file and its mode
  temps, \* the temporary files beside it: suffix -> [by, text, mode]
  run,   \* each run
  chmod  \* somebody has changed the destination's mode

cliVars == <<dest, temps, run, chmod>>

None == "none"
File(by, text, mode) == [kind |-> "file", by |-> by, text |-> text, mode |-> mode]
Nothing == [kind |-> None, by |-> None, text |-> <<>>, mode |-> None]
Directory == [Nothing EXCEPT !.kind = "dir"]
Old == File("others", <<>>, "theirs")

\* No run is nobody or the writer of the old file, and no name is the lack of one.
ASSUME CliAssumption ==
  /\ None \notin CliRuns \cup Names /\ "others" \notin CliRuns
  /\ MaxDraws \in Nat \ {0} /\ MaxBatches \in Nat

NotRun(i) ==
  [at |-> "check", inv |-> i, draws |-> 0, tmp |-> None, to |-> None, resolved |-> None,
   engine |-> None, text |-> <<>>, printed |-> <<>>, mode |-> None, found |-> Nothing]

CliInit ==
  /\ dest \in {Nothing, Directory, Old} /\ temps = <<>> /\ chmod = FALSE
  /\ run \in [CliRuns -> {NotRun(i) : i \in Invocations}]

Becomes(r, state) == run' = [run EXCEPT ![r] = state]

-----------------------------------------------------------------------------
\* `Output::for_path`, `Cli::output`: the format of `-o`, or that of the file.
ForPath(ext) ==
  CASE ext \in {"arrow", "feather", "ipc"} -> "arrow"
    [] ext \in {"ndjson", "jsonl"} -> "ndjson"
    [] ext \in {"parquet", "arrows", "csv", "tsv", "json"} -> ext
    [] OTHER -> None
OutFile(inv) == inv.out = "file"
OutputOf(inv) ==
  CASE inv.output # None -> inv.output
    [] inv.output = None /\ OutFile(inv) /\ ForPath(inv.ext) # None -> ForPath(inv.ext)
    [] OTHER -> "table"
IsBinary(output) == output \in {"parquet", "arrow", "arrows"}

\* `check_output`, before anything is read or created.
CheckOutput(inv) ==
  /\ inv.out # None => inv.cmd \notin {"serve", "open", "mcp"}
  /\ IsBinary(OutputOf(inv)) =>
       /\ inv.cmd \in {"head", "query", "catalog"}
       /\ OutputOf(inv) = "parquet" => "parquet-out" \in Built
       /\ inv.terminal => OutFile(inv)

\* `uses_remote`, `engines_for` and the registry's choice: who reads a source, and
\* who answers a query.
UsesRemote(inv) == inv.engine = "remote" \/ (inv.engine = "auto" /\ inv.url)
Engines(inv) ==
  LET sql == IF "sql" \in Built THEN "sql" ELSE None
  IN CASE UsesRemote(inv) -> [read |-> "remote", query |-> "remote", database |-> "remote"]
       [] inv.engine = "local" -> [read |-> "local", query |-> None, database |-> "database"]
       [] inv.engine = "sql" -> [read |-> "sql", query |-> "sql", database |-> "database"]
       [] OTHER -> [read |-> "local", query |-> sql, database |-> "database"]
Usable(inv) ==
  /\ UsesRemote(inv) => "remote" \in Built /\ inv.url
  /\ inv.engine = "sql" => "sql" \in Built
EngineFor(inv) ==
  CASE inv.on = "database" -> Engines(inv).database
    [] inv.on # "database" /\ inv.cmd = "query" -> Engines(inv).query
    [] OTHER -> Engines(inv).read

\* `source_for`: a remote engine resolves its own sources.
ResolvedAt(inv) == IF UsesRemote(inv) THEN "there" ELSE "here"

ReadsNothing(inv) == inv.cmd \in {"engines", "catalog"}
CanRead(inv) ==
  /\ inv.cmd = "query" => inv.engine # "local" /\ inv.on # None
  /\ ~ReadsNothing(inv) => Usable(inv) /\ EngineFor(inv) # None

\* `stream_rows`, and the one text of the others: the pieces in the order they are
\* written.  A table is aligned, so it is one piece when all of it is there; an
\* answer without batches is the empty list in JSON, and nothing as text.
OnePiece(name) == <<<<name, 0>>>>
Batch(n) == [i \in 1..n |-> <<"batch", i>>]
Whole(inv, n) ==
  LET output == OutputOf(inv)
  IN CASE inv.cmd \notin {"head", "query", "catalog"} \/ output = "table" -> OnePiece("all")
       [] output = "json" /\ n = 0 -> OnePiece("[]")
       [] output \in {"csv", "tsv", "ndjson"} /\ n = 0 -> <<>>
       [] output = "ndjson" /\ n > 0 -> Batch(n)
       [] output \in {"csv", "tsv"} /\ n > 0 -> OnePiece("header") \o Batch(n)
       [] output = "json" /\ n > 0 -> OnePiece("[") \o Batch(n) \o OnePiece("]")
       [] OTHER -> OnePiece("head") \o Batch(n) \o OnePiece("foot")

-----------------------------------------------------------------------------
\* The run fails: what is dropped removes its temporary file.
Fails(r) ==
  /\ Becomes(r, [run[r] EXCEPT !.at = "failed"])
  /\ temps' = [s \in DOMAIN temps \ {run[r].tmp} |-> temps[s]]

CheckFlags(r) ==
  /\ run[r].at = "check"
  /\ IF CheckOutput(run[r].inv)
     THEN Becomes(r, [run[r] EXCEPT !.at = "open", !.to = IF OutFile(run[r].inv) THEN "file" ELSE "stdout"])
     ELSE Becomes(r, [run[r] EXCEPT !.at = "refused"])
  /\ UNCHANGED <<dest, temps, chmod>>

OpenStdout(r) ==
  /\ run[r].at = "open" /\ run[r].to = "stdout"
  /\ Becomes(r, [run[r] EXCEPT !.at = "prepare"])
  /\ UNCHANGED <<dest, temps, chmod>>

WithNew(s, r) ==
  [t \in DOMAIN temps \cup {s} |-> IF t = s THEN File(r, <<>>, "plain") ELSE temps[t]]

\* Mutant: a name that is taken is one a killed run has left.
CreateOver(r) ==
  /\ run[r].at = "open" /\ run[r].to = "file" /\ dest.kind # "dir"
  /\ \E s \in Names :
       /\ temps' = WithNew(s, r)
       /\ Becomes(r, [run[r] EXCEPT !.at = "private", !.tmp = s])
  /\ UNCHANGED <<dest, chmod>>

\* `OutFile::create_with`: the file is created exclusively; a name that is taken is
\* a reason to draw another, a few times, and any other failure is final.
Create(r) ==
  /\ run[r].at = "open" /\ run[r].to = "file" /\ dest.kind # "dir"
  /\ \E s \in Names :
       IF s \notin DOMAIN temps
       THEN /\ temps' = WithNew(s, r)
            /\ Becomes(r, [run[r] EXCEPT !.at = "private", !.tmp = s])
       ELSE /\ Becomes(r, [run[r] EXCEPT !.draws = @ + 1,
                                         !.at = IF run[r].draws + 1 = MaxDraws THEN "failed" ELSE "open"])
            /\ UNCHANGED temps
  /\ UNCHANGED <<dest, chmod>>

\* `make_private`: its owner's alone, before a byte is written to it.
MakePrivate(r) ==
  /\ run[r].at = "private"
  /\ temps' = [temps EXCEPT ![run[r].tmp].mode = "private"]
  /\ Becomes(r, [run[r] EXCEPT !.at = "prepare", !.mode = temps[run[r].tmp].mode])
  /\ UNCHANGED <<dest, chmod>>

\* The sources are resolved and an engine chosen; the read begins.
Prepare(r) ==
  LET inv == run[r].inv
  IN /\ run[r].at = "prepare" /\ CanRead(inv)
     /\ \E n \in 0..MaxBatches :
          Becomes(r, [run[r] EXCEPT !.at = "write", !.text = Whole(inv, n),
                        !.resolved = IF ReadsNothing(inv) THEN None ELSE ResolvedAt(inv),
                        !.engine = IF ReadsNothing(inv) THEN None ELSE EngineFor(inv)])
  /\ UNCHANGED <<dest, temps, chmod>>

Written(r) == IF run[r].to = "file" THEN temps[run[r].tmp].text ELSE run[r].printed

\* The next piece is written.
WritePiece(r) ==
  LET so == Written(r)
  IN /\ run[r].at = "write" /\ Len(so) < Len(run[r].text)
     /\ LET more == Append(so, run[r].text[Len(so) + 1])
        IN IF run[r].to = "file"
           THEN temps' = [temps EXCEPT ![run[r].tmp].text = more] /\ UNCHANGED run
           ELSE Becomes(r, [run[r] EXCEPT !.printed = more]) /\ UNCHANGED temps
  /\ UNCHANGED <<dest, chmod>>

AllWritten(r) == run[r].at = "write" /\ Written(r) = run[r].text

FlushStdout(r) ==
  /\ AllWritten(r) /\ run[r].to = "stdout"
  /\ Becomes(r, [run[r] EXCEPT !.at = "done"])
  /\ UNCHANGED <<dest, temps, chmod>>

\* `commit`: flush and sync, and look at the mode of what is there.
Sync(r) ==
  /\ AllWritten(r) /\ run[r].to = "file"
  /\ Becomes(r, [run[r] EXCEPT !.at = "mode", !.found = dest,
                               !.mode = IF dest = Nothing THEN @ ELSE dest.mode])
  /\ UNCHANGED <<dest, temps, chmod>>
SetMode(r) ==
  /\ run[r].at = "mode"
  /\ temps' = [temps EXCEPT ![run[r].tmp].mode = run[r].mode]
  /\ Becomes(r, [run[r] EXCEPT !.at = "rename"])
  /\ UNCHANGED <<dest, chmod>>
Rename(r) ==
  /\ run[r].at = "rename"
  /\ dest' = temps[run[r].tmp]
  /\ temps' = [s \in DOMAIN temps \ {run[r].tmp} |-> temps[s]]
  /\ Becomes(r, [run[r] EXCEPT !.at = "done"])
  /\ UNCHANGED chmod

\* A refusal of what was asked, a failing engine, a full disk, a closed pipe.
UnderWay(r) == run[r].at \in {"open", "private", "prepare", "write", "mode", "rename"}
FailRun(r) ==
  /\ UnderWay(r) /\ Fails(r)
  /\ UNCHANGED <<dest, chmod>>

\* Nobody handles signals.
Kill(r) ==
  /\ UnderWay(r)
  /\ Becomes(r, [run[r] EXCEPT !.at = "killed"])
  /\ UNCHANGED <<dest, temps, chmod>>

\* The owner of the destination makes it private.
Chmod ==
  /\ ~chmod /\ chmod' = TRUE
  /\ dest.kind = "file" /\ dest' = [dest EXCEPT !.mode = "private"]
  /\ UNCHANGED <<temps, run>>

\* Every run is over.
AllOver == (\A r \in CliRuns : run[r].at \in {"done", "refused", "failed", "killed"}) /\ UNCHANGED cliVars

CliNext ==
  \/ \E r \in CliRuns :
       \/ CheckFlags(r) \/ OpenStdout(r) \/ Create(r) \/ MakePrivate(r) \/ Prepare(r) \/ WritePiece(r)
       \/ FlushStdout(r) \/ Sync(r) \/ SetMode(r) \/ Rename(r) \/ FailRun(r) \/ Kill(r)
  \/ Chmod \/ AllOver

CliSpec == CliInit /\ [][CliNext]_cliVars

-----------------------------------------------------------------------------
\* The destination is what was there or all of what one run wrote, whatever fails,
\* is killed or writes at once ("captures it whole or not at all", cli.rs:301).
\* A run that ended well has put its text there, and there is something since.
DestinationIsWhole ==
  /\ dest \in {Nothing, Directory} \/ dest.by = "others" \/ dest.text = run[dest.by].text
  /\ dest.kind = "file" /\ dest.by \in CliRuns => run[dest.by].at = "done"
  /\ \A r \in CliRuns : run[r].at = "done" /\ run[r].to = "file" => dest.by \in CliRuns

\* A temporary file is its run's alone: it holds what that run has written, and
\* outlasts the run only if it was killed (cli.rs:587-590, 626-632).
TemporariesAreOwned ==
  /\ \A r \in CliRuns : UnderWay(r) /\ run[r].tmp # None => run[r].tmp \in DOMAIN temps /\ temps[run[r].tmp].by = r
  /\ \A s \in DOMAIN temps :
       LET r == temps[s].by
       IN /\ run[r].tmp = s /\ (UnderWay(r) \/ run[r].at = "killed")
          /\ IsPrefix(temps[s].text, run[r].text)
          /\ temps[s].text # <<>> /\ run[r].at \in {"prepare", "write", "mode"} => temps[s].mode = "private"

\* A file that is replaced keeps its permissions: "a report made private stays
\* private" (cli.rs:592-595).  One made private in the middle of a commit does not.
KeepsPermissions ==
  dest.by \in CliRuns =>
    LET found == run[dest.by].found
    IN \/ dest.mode = IF found = Nothing THEN "plain" ELSE found.mode
       \/ chmod /\ dest.mode = "private"

\* What is printed is printed in order, all of it by a run that ends well, and no
\* bytes go to a terminal (cli.rs:448-455).
PrintsInOrder ==
  \A r \in CliRuns :
    /\ IsPrefix(run[r].printed, run[r].text)
    /\ run[r].at = "done" /\ run[r].to = "stdout" => run[r].printed = run[r].text
    /\ run[r].printed # <<>> /\ run[r].inv.terminal => ~IsBinary(OutputOf(run[r].inv))

\* A path is resolved by the machine that reads it (cli.rs:806-816).
ResolvedWhereRead ==
  \A r \in CliRuns : run[r].engine # None => (run[r].resolved = "there" <=> run[r].engine = "remote")

OutputIsWhole ==
  DestinationIsWhole /\ TemporariesAreOwned /\ KeepsPermissions /\ PrintsInOrder /\ ResolvedWhereRead
=============================================================================
