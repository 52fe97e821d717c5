\* Two requests, incremental or full, with uploads, deletions and one failure.
CONSTANTS
  a1 = a1
  a2 = a2
  NoGame = NoGame
  Actors = {a1, a2}
  Games <- MCGames3
  Bad = {3}
  Month <- MCMonthTwice
  Uploads <- MCUploads
  Removable <- MCRemovable
  AllowFull = TRUE
  MaxFaults = 1
  ChessComRetries = 1
SPECIFICATION ChessComSpec
SYMMETRY Symmetry
INVARIANTS
  ChessComCoversHistory
  ChessComCountsMonths
PROPERTY ChessComImplementsLibrary
