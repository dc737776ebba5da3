CONSTANTS
  ApprovalIDs = {"loan", "wire"}
  MaxGates = 2
  MaxSignals = 2
SPECIFICATION Spec
CHECK_DEADLOCK FALSE
INVARIANT TimerMeansExpired
