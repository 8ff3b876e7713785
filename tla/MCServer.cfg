SPECIFICATION PartsSpec
CONSTANTS
 r1 = r1
 e1 = e1
 e2 = e2
 Requests = {r1}
 Embedders = {e1, e2}
 Wishes <- MCWishes
 Entry <- MCEntry
 Servers <- MCServers
 EmbeddedAsks <- MCEmbeddedAsks
 QueryCap = 2
 DefaultCap = 1
 MaxRows = 3
 Channel = 2
 MaxCachedPools = 1
 MaxConnections = 1
 Free = free
 Queries <- MCQueries
 Ranges <- MCRanges
 Window = 2
 Keeps = 3
 InFlight = 2
 Retry = 1
 MaxRetry = 2
 MaxQueries = 2
 MaxWants = 3
 MaxFailures = 1
 Worlds <- MCWorlds
 Markers <- MCMarkers
 Elsewhere <- MCElsewhere
 Given = {"pq", "iceberg", "zzz"}
 Postures = {"ambient", "vended only", "never"}
INVARIANTS TypeOK RunsAsItsCaller PoolsAreSound ServedIsConfined AnswerIsWhole RunsAreRecorded PlacesAreTrue GridShowsTheTable
PROPERTIES EveryRequestEnds
CHECK_DEADLOCK FALSE
