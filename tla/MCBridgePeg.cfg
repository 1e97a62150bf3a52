CONSTANTS
  u1 = u1
  e1 = e1
  e2 = e2
  User <- MCUser
  DepositEvent <- MCDeposit
  Amount <- MCAmount
  Limits <- MCLimits
  MaxSupply = 4
  Day = 2
  MaxTime = 5
  MaxBlock = 3
  MaxCrashes = 2
  JointTime = 1
  JointCrashes = 1
SPECIFICATION SysSpec
CHECK_DEADLOCK FALSE
INVARIANT SentOnlyForBurned
