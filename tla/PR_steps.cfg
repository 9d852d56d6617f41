SPECIFICATION Spec
CONSTANTS
  a = a
  b = b
  c = c
  d = d
  Nodes = {a, b, c, d, e}
  e = e
  Entry = {a, b, e}
  Edges <- MCEdges
  Joins <- MCJoins
  Routes <- MCRoutes
  Questions <- MCQuestions
  Before = {d}
  After = {a}
  Limit = 7
  Sync = FALSE
  MaxInputs = 3
  MaxFaults = 3
INVARIANTS
  ExactlyOnce
  JoinsWait
PROPERTIES
  WholeSteps
  RunsEnd
CHECK_DEADLOCK FALSE
