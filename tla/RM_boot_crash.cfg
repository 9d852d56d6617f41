SPECIFICATION Spec
CONSTANTS
  t1 = t1
  w1 = w1
  w2 = w2
  Threads = {t1}
  Workers = {w1, w2}
  Limit = 3
  RepoThreads = {}
  CrashIn = {"up", "boot"}
  MaxSubmits = 2
  MaxCrashes = 2
SYMMETRY Symmetry
INVARIANTS
  NothingLost
CHECK_DEADLOCK FALSE
