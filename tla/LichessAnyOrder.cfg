\* One failure of an incremental sync while the export is in any order.
CONSTANTS
  a1 = a1
  Actors = {a1}
  Games <- MCGames
  Bad = {}
  NoGame = NoGame
  Second <- MCSecond
  Undated = {}
  Orders = {FALSE}
  LateFinishers = {}
  Uploads <- MCNone
  Removable = {}
  AllowFull = FALSE
  MaxFaults = 1
  LichessRetries = 1
SPECIFICATION LichessSpec
INVARIANT LichessCoversHistory
