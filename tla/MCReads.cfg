SPECIFICATION ReadsSpec
CONSTANTS
    Null = Null
    Tables <- MCTables
    Asks <- MCAsks
    DeepRows = 2
    SampleRows = 2
    Margin = 0
    InferRows = 1
    MaxChanges = 1
    c1 = c1
    c2 = c2
    x = x
    y = y
    f1 = f1
    Calls = {c1, c2}
    DeltaTables = {x, y}
    Files = {f1}
    CacheMax = 1
    MaxCommits = 2
    Names = {"a", "b", "c"}
    Dialects = {1, 2}
    Reuses = FALSE
    MaxId = 3
    MaxSchemas = 3
    MaxFiles = 2
    ReadFiles <- MCReadFiles
    Contents <- MCContents
    ReadAsks <- MCReadAsks
    Cap = 4
    InferMax = 1
    BatchSize = 2
    CacheEntries = 1
    MaxReads = 2
    MaxDrops = 1
    MaxReplaces = 1
SYMMETRY MCSymmetry
INVARIANTS
    ReadsTypeOK
    GridIsTheFile
    TypesFit
    PlanIsTheTable
    ReadIsOneSnapshot
    ScanIsComplete
    FiltersAgree
    ColumnsKeepTheirValues
    DatasetIsItsFiles
    FileReadsAreTrue
CHECK_DEADLOCK FALSE
