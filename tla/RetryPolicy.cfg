SPECIFICATION RetrySpec
CHECK_DEADLOCK FALSE
CONSTANTS
  MaxCalls = 2
  MaxTries = 30
  Lags = {0, 40}
INVARIANTS
  BusinessErrorIsFinal
  TransientErrorIsRetried
  PromptFailuresUseAllAttempts
  OneCutAttemptIsSurvived
