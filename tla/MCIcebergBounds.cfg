SPECIFICATION ScanSpec
CONSTANTS
  FirstTables <- MCFirstTables
  MoreFiles <- MCMoreFiles
  Deleted <- MCDeleted
  DeletedAt <- MCDeletedAt
  Asks <- MCAsks
INVARIANTS BoundsProveNoMatch
CHECK_DEADLOCK FALSE
