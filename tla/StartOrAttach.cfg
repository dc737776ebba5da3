CONSTANTS
  Callers = {c1, c2, c3}
  MaxLost = 1
SPECIFICATION Spec
CHECK_DEADLOCK FALSE
INVARIANT HandleIsFresh
INVARIANT AlreadyRunningWhenAsked
INVARIANT OneStarterPerRun
