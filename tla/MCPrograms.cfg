SPECIFICATION ProgramsSpec
CONSTANTS
  a = a
  b = b
  null = null
  t1 = t1
  t2 = t2
  t3 = t3
  w1 = w1
  r0 = r0
  none = none
  Ids = {a, b}
  NullId = null
  Methods <- MCMethodsCalls
  MaxRequests = 3
  MaxInbox = 1
  MaxRunning = 2
  Patience = 1
  MayHangUp = FALSE
  Handlers = {t1, t2}
  WorkspaceIds = {w1}
  Runs = {a, b}
  Imported = r0
  Free = none
  MaxCrashes = 1
  MaxFailures = 1
  FileRequests = {a, b, t3}
  Shapes <- MCShapes
  MaxGen = 3
  CliRuns = {a, b}
  Invocations <- MCInvocations
  Built = {"sql", "remote", "parquet-out"}
  Names = {"n1", "n2"}
  MaxDraws = 2
  MaxBatches = 1
  Callers = {a, b}
  Peers <- MCPeers
  Asks <- MCAsks
  TableRows = 3
  DefaultCap = 2
  QueryCap = 3
  Cap = 3
  MaxRestarts = 1
  MaxCalls = 2
  Servers <- MCServers
  ToolTables <- MCToolTables
  Results <- MCResults
  Counts <- MCCounts
  Offsets = {0, 1}
  PreviewRows = 2
  QueryRows = 2
  DefaultScan = 2
  MaxScan = 3
  MaxResultRows = 2
  NoteRoom = 2
  Frame = 3
  MaxBytes = 15
SYMMETRY MCSymmetry
INVARIANTS
  TypeOK SettledOnce RightAnswer ThreadsBounded NothingOwedAtExit PendingIdsDiffer
  StoreTypeOK StoredStays HistoryIsSound
  OutputIsWhole ToolsAreTrue RemoteIsTheServers RenewalIsSound
PROPERTIES KeepsPromise
