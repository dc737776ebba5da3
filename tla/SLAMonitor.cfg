CONSTANTS
  WorkflowIDs = {w1, w2}
  WarnAfter = 2
  AlertAfter = 4
  MinPoll = 2
  PageSize = 2
  MaxRuns = 2
  MaxTime = 12
SPECIFICATION MonitorSpec
CHECK_DEADLOCK FALSE
INVARIANT AlertsAreDueAndSingle
INVARIANT FirstBreachIsAlertedInTime
