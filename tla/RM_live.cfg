SPECIFICATION FairSpec
CONSTANTS
  t1 = t1
  w1 = w1
  w2 = w2
  Threads = {t1}
  Workers = {w1, w2}
  Limit = 1
  RepoThreads = {}
  CrashIn = {"up"}
  MaxSubmits = 3
  MaxCrashes = 1
PROPERTIES
  EveryRunEnds
  DeliversMail
CHECK_DEADLOCK FALSE
