SPECIFICATION Spec
CONSTANTS
  CycleBudget = 4
  DiscardLimit = 2
  Budget = 3
  MaxCost = 1
  MaxRuns = 2
  MaxKills = 1
  MaxTurns = 1
  MaxWrites = 3
CHECK_DEADLOCK FALSE
INVARIANTS
  
  
  StaysInBudget
  
