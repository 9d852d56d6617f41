SPECIFICATION Spec
CONSTANTS
  t1 = t1
  t2 = t2
  w1 = w1
  w2 = w2
  Threads = {t1, t2}
  Workers = {w1, w2}
  Limit = 1
  RepoThreads = {t1}
  CrashIn = {"up"}
  MaxSubmits = 3
  MaxCrashes = 1
SYMMETRY Symmetry
INVARIANTS
  IInv
  SoleWriter
  OneRunning
CHECK_DEADLOCK FALSE
