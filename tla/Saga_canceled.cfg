CONSTANTS
  Activities = {a1}
  MaxSteps = 2
SPECIFICATION Spec
CHECK_DEADLOCK FALSE
INVARIANT RemainingStepsExecute
