CONSTANTS
  f1 = f1
  f2 = f2
  a1 = a1
  a2 = a2
  Flow <- MCFlow
  Agent <- MCAgent
  Plans <- MCPlans
  Timeout = 1
  MaxFailures = 2
  MaxBackups = 1
SPECIFICATION FairSpec
INVARIANT FailuresCounted
INVARIANT CompletedHasAllSteps
PROPERTY SilentFlowsEnd
CHECK_DEADLOCK FALSE
