\* As Collections, folders only, with room for two moves that close a cycle and
\* one beside it.
CONSTANTS
  c1 = c1
  c2 = c2
  i1 = i1
  i2 = i2
  p1 = p1
  p2 = p2
  p3 = p3
  FolderClients = {c1, c2}
  FolderUsers <- MCFolderUsers
  FolderNames = {"n1"}
  FolderStudies <- MCFolderStudies
  MaxFolders = 3
  MaxFolderWrites = 6
  NoRequest = NoRequest
  LibraryClients = {c1}
  LibraryUsers <- MCLibraryUsers
  Importers = {}
  PgnFile <- MCPgnFile
  Unreadable = {}
  Illegal = {"bad"}
  DateOf <- MCDateOf
  ChunkSize = 5
  BatchSize = 2
  MAX_LIMIT = 2
  MaxDatabases = 2
  MaxLibraryWrites = 0
  NoTask = NoTask
  MastersCallers = {c1, c2}
  Positions = {p1, p2, p3}
  CacheTtl = 2
  CacheCap = 2
  Backoff = 2
  MaxClock = 0
  NoCall = NoCall
  Releases <- MCReleases
  MaxMigrations = 0
  SearchClients = {c1}
  SearchUser <- MCSearchUser
  DatabaseOwner <- MCDatabaseOwner
  Shelf <- MCShelf
  SearchQueries <- MCSearchQueries
  After <- MCAfter
  Asked = "pab"
  MaxShelved = 0
  MaxElo = 100
SPECIFICATION Spec
SYMMETRY Symmetry
CHECK_DEADLOCK FALSE
INVARIANT WalksEnd
