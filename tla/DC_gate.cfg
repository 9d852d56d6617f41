SPECIFICATION Spec
CONSTANTS
  h1 = h1
  h2 = h2
  Pushes = {h1, h2}
  Timeout = 2
  Stale = 2
  MaxFaults = 1
SYMMETRY Symmetry
INVARIANTS
  
  
  AskedOnce
  SweepSparesWaiting
PROPERTIES
  VerdictStands
