SPECIFICATION CatalogsSpec
CONSTANTS
  c1 = c1
  c2 = c2
  i1 = i1
  i2 = i2
  null = null
  Calls = {c1, c2}
  MaxTokens = 4
  Readers = {1, 2}
  Options <- MCOptions
  NoScope = "none"
  Size = 2
  CacheEntries = 2
  MaxVersions = 2
  Key <- MCKey
  Files <- MCFiles
  Settings <- MCSettings
  Strays <- MCStrays
  MaxWanted = 2
INVARIANTS
  TypeOK RefusedStaysRefused BrowseIsTrue EnvironmentWins ReadsAreTrue
PROPERTIES CallsEnd SessionSettles
CHECK_DEADLOCK FALSE
