SPECIFICATION Spec
CONSTANTS
  a = a
  b = b
  c = c
  d = d
  Nodes = {a, b, c, d, e}
  e = e
  Entry = {a, b, e}
  Edges <- MCEdges
  Joins <- MCJoins
  Routes <- MCRoutes
  Questions <- MCQuestions
  Before = {b, d}
  After = {a}
  Limit = 7
  Sync = FALSE
  MaxInputs = 2
  MaxFaults = 1
INVARIANTS ExactlyOnce
CHECK_DEADLOCK FALSE
