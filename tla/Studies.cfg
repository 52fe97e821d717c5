CONSTANTS
  c1 = c1
  c2 = c2
  Illegal = Illegal
  NoEval = NoEval
  NoNode = NoNode
  NoWords = NoWords
  NoDest = NoDest
  NoStudy = NoStudy
  StartPos <- Start
  Plays <- PlaysOf
  Core <- CoreOf
  EmptyText <- EmptyOf
  Join <- JoinOf
  Inside <- InsideOf
  After <- AfterOf
  Parsed <- ParsedOf
  MaxSamples = 2
  StudyClients = {c1, c2}
  StudyCallers <- CallersOf
  MaxStudies = 1
  MaxStudyWrites = 3
  MaxTree = 4
  StudyEdits = {"create", "import", "from_game", "share", "drop", "add", "annotate", "shapes", "reorder", "promote", "delete", "add_line", "merge", "mark", "danger", "clear", "regenerate", "analyse"}
  Sans = {"a", "b", "a+"}
  Words <- WordsOf
  Drawings <- DrawingsOf
  Imports <- ImportsOf
  GameRows <- GamesOf
  MergeLists <- MergesOf
  MergeCap = 2
  Dangers <- DangersOf
  Verdict <- VerdictOf
  Arrows <- ArrowsOf
  GeneratedBrushes = {"plan1", "threat"}
SPECIFICATION MCSpec
CHECK_DEADLOCK FALSE
INVARIANTS
  IdsNameTheirMoves
  LinesAsPromised
  PassesKeepUserWork
  ExportsRoundTrip
  PassesAreIdempotent
