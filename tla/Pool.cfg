\* Three callers, one in a job, share a pool of one, as the server has it; or
\* two, with two lines and a malformed position.
CONSTANTS
  c1 = c1
  c2 = c2
  c3 = c3
  e2 = e2
  p1 = p1
  p2 = p2
  bad = bad
  e1 = e1
  None = None
  Callers = {c1, c2, c3}
  Positions = {p1, p2, bad}
  Invalid = {bad}
  MultiPVs = {1, 2}
  InJob = {c1}
  PoolSize = 1
  Procs = {e1, e2}
SPECIFICATION MCSpec
INVARIANT PermitsConserved
PROPERTIES
  ImplementsCalls
  EveryCallReturns
