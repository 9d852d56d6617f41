SPECIFICATION Spec
CONSTANTS
  t1 = t1
  t2 = t2
  chief = chief
  pm = pm
  c1 = c1
  c2 = c2
  s1 = s1
  None = None
  Threads = {t1, t2}
  Agents = {chief, pm}
  Entry = chief
  Handoffs <- MCHandoffs
  Conns = {c1, c2}
  Usable <- MCUsable
  Slots <- MCSlots
  Budget <- MCBudget
  OrgBudget = 2
  MaxCost = 1
  MaxAttempts = 2
  Sigs = {s1}
INVARIANTS
  
  CardIsItsAgents
  OvershootIsBounded
PROPERTIES
  
  ActivationsEnd
