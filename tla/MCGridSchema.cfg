SPECIFICATION Spec
CONSTANTS
    Null = Null
    Tables <- MCTables
    Asks <- MCAsks
    DeepRows = 2
    SampleRows = 2
    Margin = 0
    InferRows = 1
    MaxChanges = 1
PROPERTIES
    SchemaOnlyWidens
CHECK_DEADLOCK FALSE
