SPECIFICATION Spec
CHECK_DEADLOCK FALSE
CONSTANTS
  MaxRuns = 2
  MaxDeploys = 2
  MaxAttempts = 2
  MaxEvents = 1
INVARIANTS
  NoMoneyWithoutDecision
  PaidAtMostOnce
  SuccessIsBacked
  RollbackLeavesOnlyDoubt
  DeploymentsKeepThePath
PROPERTY
  LoanEnds
