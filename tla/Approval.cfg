CONSTANTS
  ApprovalIDs = {"loan", "wire"}
  MaxGates = 3
  MaxSignals = 3
SPECIFICATION FairSpec
CHECK_DEADLOCK FALSE
INVARIANT SignalsConserved
INVARIANT ApprovedOnlyBySignal
INVARIANT TimedOutIsExplained
PROPERTY EveryGateIsDecided
