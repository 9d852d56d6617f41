SPECIFICATION Spec
CONSTANTS
  MaxMessages = 3
  Depth = 2
  Workflows = {"wf"}
  MaxIds = 3
  MaxExits = 1
CHECK_DEADLOCK FALSE
INVARIANTS
  
  
  RecoversAtOnce
PROPERTIES
  MessagesSettle
