SPECIFICATION Spec
CONSTANTS
  Steps <- MCSteps
  Saves = {2, 4}
  MaxAnswers = 2
  MaxErrors = 0
  MaxCrashes = 0
  None = None
CHECK_DEADLOCK FALSE
INVARIANT AnswersTheCardShown
