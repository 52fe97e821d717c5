\* Two requests with uploads, deletions, a bad game and one failure, over an
\* orderly Lichess and over one that may publish a game late.
CONSTANTS
  a1 = a1
  a2 = a2
  NoGame = NoGame
  Actors = {a1, a2}
  Games <- MCGames3
  Bad = {3}
  Second <- MCSecond
  Undated = {1}
  Orders = {TRUE, FALSE}
  LateFinishers = {1}
  Uploads <- MCUploads
  Removable = {1}
  AllowFull = TRUE
  MaxFaults = 1
  LichessRetries = 1
SPECIFICATION LichessSpec
SYMMETRY Symmetry
INVARIANTS
  NoDuplicateRows
  ImportedCountIsReal
  IngestsWholeGames
  SuccessIsComplete
PROPERTY LichessImplementsLibrary
