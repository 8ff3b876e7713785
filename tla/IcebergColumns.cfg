SPECIFICATION SchemaSpec
CONSTANTS
  Names = {"a", "b"}
  Dialects = {1, 2}
  Reuses = TRUE
  MaxId = 3
  MaxSchemas = 3
  MaxFiles = 2
INVARIANTS ColumnsKeepTheirValues
CHECK_DEADLOCK FALSE
