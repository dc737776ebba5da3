CONSTANTS
  Activities = {a1, a2}
  MaxSteps = 3
SPECIFICATION CoroutineSpec
CHECK_DEADLOCK FALSE
INVARIANT UndoRespectsOrder
INVARIANT CompleteKeepsEffects
INVARIANT UndisturbedRollbackIsTotal
INVARIANT EventsMatchFailures
INVARIANT EscalationReachesSink
PROPERTY RefinesContract
PROPERTY RollbackTerminates
