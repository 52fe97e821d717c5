\* One page: two positions and a malformed one, two actions of the user.
CONSTANTS
  p1 = p1
  p2 = p2
  bad = bad
  None = None
  Sockets <- MCSocket
  Positions = {p1, p2, bad}
  Invalid = {bad}
  MaxInfos = 1
  MaxAsks = 2
SPECIFICATION FairSpec
CHECK_DEADLOCK FALSE
INVARIANTS
  PlansAreTracedFromTheirSearch
  QuietWhenNotAnalysing
  AnalysingIsTrue
PROPERTIES
  EverySearchEnds
  EngineIsFreed
