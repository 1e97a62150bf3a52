CONSTANTS
  n1 = n1
  n2 = n2
  Node <- MCNode
  MaxTime = 1
  MaxInFlight = 2
  MaxCrashes = 1
SPECIFICATION FairSpec
INVARIANT RolesAgree
PROPERTY StepsDownForNewer
PROPERTY ElectionResolves
CHECK_DEADLOCK FALSE
