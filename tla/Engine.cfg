CONSTANTS
  Monitors = {m1, m2}
  Tasks = {t1}
SPECIFICATION FairSpec
CHECK_DEADLOCK FALSE
INVARIANT RunningWorkerHasClient
INVARIANT ReturnedMeansReleased
INVARIANT FailureLeavesNothingRunning
PROPERTY StopRequestsAreHonoured
