\* Two requests at a time on folders, one on collections beside two imports,
\* two callers of the explorer, migrations of three releases, a searcher.
CONSTANTS
  c1 = c1
  c2 = c2
  i1 = i1
  i2 = i2
  p1 = p1
  p2 = p2
  p3 = p3
  FolderClients = {c1, c2}
  FolderUsers <- MCFolderUsers
  FolderNames = {"n1", "n2"}
  FolderStudies <- MCFolderStudies
  MaxFolders = 3
  MaxFolderWrites = 4
  NoRequest = NoRequest
  LibraryClients = {c1}
  LibraryUsers <- MCLibraryUsers
  Importers = {i1, i2}
  PgnFile <- MCPgnFile
  Unreadable = {}
  Illegal = {"bad"}
  DateOf <- MCDateOf
  ChunkSize = 5
  BatchSize = 2
  MAX_LIMIT = 2
  MaxDatabases = 2
  MaxLibraryWrites = 3
  NoTask = NoTask
  MastersCallers = {c1, c2}
  Positions = {p1, p2, p3}
  CacheTtl = 2
  CacheCap = 2
  Backoff = 2
  MaxClock = 4
  NoCall = NoCall
  Releases <- MCReleases
  MaxMigrations = 3
  SearchClients = {c1}
  SearchUser <- MCSearchUser
  DatabaseOwner <- MCDatabaseOwner
  Shelf <- MCShelf
  SearchQueries <- MCSearchQueries
  After <- MCAfter
  Asked = "pab"
  MaxShelved = 3
  MaxElo = 100
SPECIFICATION Spec
SYMMETRY Symmetry
\* Every component stops at its bounds.
CHECK_DEADLOCK FALSE
INVARIANTS
  ForestUnlessMovesRace
  FoldersStayConsistent
  ImportsConverge
  IndexFollowsGames
  ListingsServeOnce
  ReportIsTrue
  MigrationsServe
PROPERTY QuietAfterLimit
