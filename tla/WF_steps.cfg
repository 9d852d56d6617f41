SPECIFICATION Spec
CONSTANTS
  Steps <- MCSteps
  Saves = {2, 4}
  MaxAnswers = 3
  MaxErrors = 1
  MaxCrashes = 2
  None = None
CHECK_DEADLOCK FALSE
INVARIANTS
  ApprovalsAreSpent
  SavedOnce
  AskedForAReason
PROPERTIES
  OverIsOver
  RunsEnd
