------------------------------- MODULE MCReads -------------------------------
(***************************************************************************)
(* The parts that read tables, each on its own: `part` says which one a    *)
(* behaviour is about, and the others stay as they are.                    *)
(*   grid     GridScan, with the tables of MCGrid                          *)
(*   delta    DeltaLog: two tables of one file, a cache with room for one  *)
(*            plan, and two threads that ask for plans again and again     *)
(*   iceberg  LocalScan: a table of each kind of column, and for integers  *)
(*            a partitioned one, one that is written without hints, and    *)
(*            one whose rows have been updated                             *)
(*   schema   IcebergSchema: a table whose columns change                  *)
(*   dataset  Datasets: a directory of up to three files, which have       *)
(*            columns of a name and a struct in common, or a key in the    *)
(*            path                                                         *)
(*   file     FileReads: one file, of text or Arrow, that may be replaced  *)
(***************************************************************************)
EXTENDS MCGrid, DeltaLog, IcebergSchema, FileReads, TLC

CONSTANTS c1, c2, x, y, f1

VARIABLES
  part,
  table, history, head, meta, hint, expired, readCall,
  directory, writes, scan

MCSymmetry == Permutations({c1, c2}) \cup Permutations({x, y})

Tiny == INSTANCE MCIcebergTables
Ice == INSTANCE LocalScan WITH
  call <- readCall, FirstTables <- Tiny!MCFirstTables, MoreFiles <- Tiny!MCMoreFiles,
  Deleted <- Tiny!MCDeleted, DeletedAt <- Tiny!MCDeletedAt, Asks <- Tiny!MCAsks
Trees == INSTANCE MCInputs
Folders == INSTANCE Datasets WITH
  Candidates <- Trees!Candidates, Paths <- 1 .. 3, Windows <- Trees!Windows, Flattens <- 0 .. 2, MaxWrites <- 1
MCReadFiles == Trees!OtherFiles
MCContents == Trees!FileContents
MCReadAsks == Trees!FileAsks
ASSUME FilesAreRead == FilesAssumption

gridVars == vars
iceVars == <<table, history, head, meta, hint, expired, readCall>>
folderVars == <<directory, writes, scan>>

\* What a part is like while another is looked at.
GridParked ==
  /\ kind = "csv" /\ file = <<<<>>>> /\ ask = Ask(0, 1, FALSE, FALSE, 0)
  /\ known = [v \in Versions |-> Unknown] /\ narrowed = FALSE
  /\ other = [pc |-> "idle", version |-> 0, types |-> 0] /\ call = Attempt(1)
DeltaParked ==
  /\ log = [t \in DeltaTables |-> CHOOSE a \in [{1} -> Created] : TRUE] /\ first = [t \in DeltaTables |-> 1]
  /\ cache = [t \in {} |-> Idle] /\ planCall = [c \in Calls |-> Idle]
IceParked == table = {} /\ history = {} /\ head = {} /\ meta = {} /\ hint = {} /\ expired = {} /\ readCall = {}
SchemaParked == metadata = {} /\ lastId = 0 /\ files = <<>> /\ read = Unread
FolderParked == directory = {} /\ writes = 0 /\ scan = {}
FileParked ==
  /\ about = CHOOSE f \in ReadFiles : TRUE
  /\ versions = <<>> /\ kinds = <<>> /\ job = NoRead /\ drops = 0 /\ reads = 0

ReadsInit ==
  \/ /\ part = "grid" /\ Init
     /\ DeltaParked /\ IceParked /\ SchemaParked /\ FolderParked /\ FileParked
  \/ /\ part = "delta" /\ DeltaInit
     /\ GridParked /\ IceParked /\ SchemaParked /\ FolderParked /\ FileParked
  \/ /\ part = "iceberg" /\ Ice!ScanInit
     /\ GridParked /\ DeltaParked /\ SchemaParked /\ FolderParked /\ FileParked
  \/ /\ part = "schema" /\ SchemaInit
     /\ GridParked /\ DeltaParked /\ IceParked /\ FolderParked /\ FileParked
  \/ /\ part = "dataset" /\ Folders!DatasetInit
     /\ GridParked /\ DeltaParked /\ IceParked /\ SchemaParked /\ FileParked
  \/ /\ part = "file" /\ FilesInit
     /\ GridParked /\ DeltaParked /\ IceParked /\ SchemaParked /\ FolderParked

ReadsNext ==
  \/ /\ part = "grid" /\ Next
     /\ UNCHANGED <<part, deltaVars, iceVars, schemaVars, folderVars, fileVars>>
  \/ /\ part = "delta" /\ DeltaNext
     /\ UNCHANGED <<part, gridVars, iceVars, schemaVars, folderVars, fileVars>>
  \/ /\ part = "iceberg" /\ Ice!ScanNext
     /\ UNCHANGED <<part, gridVars, deltaVars, schemaVars, folderVars, fileVars>>
  \/ /\ part = "schema" /\ SchemaNext
     /\ UNCHANGED <<part, gridVars, deltaVars, iceVars, folderVars, fileVars>>
  \/ /\ part = "dataset" /\ Folders!DatasetNext
     /\ UNCHANGED <<part, gridVars, deltaVars, iceVars, schemaVars, fileVars>>
  \/ /\ part = "file" /\ FilesNext
     /\ UNCHANGED <<part, gridVars, deltaVars, iceVars, schemaVars, folderVars>>

ReadsSpec == ReadsInit /\ [][ReadsNext]_<<part, gridVars, deltaVars, iceVars, schemaVars, folderVars, fileVars>>

\* Directories only.
FolderSpec ==
  (ReadsInit /\ part = "dataset")
    /\ [][ReadsNext]_<<part, gridVars, deltaVars, iceVars, schemaVars, folderVars, fileVars>>

\* Every state is of its type, in every part.
ReadsTypeOK ==
  /\ part = "grid" => TypeOK
  /\ part = "delta" => DeltaTypeOK
  /\ part = "iceberg" => Ice!IcebergTypeOK

\* What the module of each part that is not extended states of it.
ReadIsOneSnapshot == part = "iceberg" => Ice!ReadIsOneSnapshot
ScanIsComplete == part = "iceberg" => Ice!ScanIsComplete
FiltersAgree == part = "iceberg" => Ice!FiltersAgree
DatasetIsItsFiles == part = "dataset" => Folders!DatasetIsItsFiles
PartitionsNeverShadow == part = "dataset" => Folders!PartitionsNeverShadow
=============================================================================
