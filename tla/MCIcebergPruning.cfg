SPECIFICATION ScanSpec
CONSTANTS
  FirstTables <- MCFirstTables
  MoreFiles <- MCMoreFiles
  Deleted <- MCDeleted
  DeletedAt <- MCDeletedAt
  Asks <- MCAsks
INVARIANTS PartitionsProveNoMatch
CHECK_DEADLOCK FALSE
