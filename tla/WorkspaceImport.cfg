SPECIFICATION StoreSpec
CONSTANTS
  Handlers = {t1, t2}
  WorkspaceIds = {w1}
  Runs = {r1, r2}
  Imported = r0
  Free = free
  MaxCrashes = 0
  MaxFailures = 0
INVARIANT HistoryAppendOnly
