SPECIFICATION Spec
CONSTANTS
  t1 = t1
  w1 = w1
  w2 = w2
  Threads = {t1}
  Workers = {w1, w2}
  Limit = 2
  RepoThreads = {}
  CrashIn = {"up"}
  MaxSubmits = 4
  MaxCrashes = 1
SYMMETRY Symmetry
INVARIANTS
  TypeOK
  QueuedArePending
  NoneStranded
  NothingLost
  RowTellsState
  PausedIsShown
  
PROPERTIES
  ImplementsMailbox
CHECK_DEADLOCK FALSE
