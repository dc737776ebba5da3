CONSTANT N = 4
SPECIFICATION FairSpec
CHECK_DEADLOCK FALSE
INVARIANT ResultsMatchCalls
PROPERTY ParallelReturns
