CONSTANTS
  KeyFns = {"IdempotencyKey", "IdempotencyKeyNoRetry"}
  Stores = {"memory", "redis"}
  MaxRuns = 2
  MaxAttempts = 2
  MaxFaults = 2
SPECIFICATION Spec
CHECK_DEADLOCK FALSE
INVARIANT DuplicatesAreBoundedByFaults
INVARIANT AnswerIsGenuine
INVARIANT SuccessIsNotReportedAsError
INVARIANT TypeOK
