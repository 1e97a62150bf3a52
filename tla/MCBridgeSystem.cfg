CONSTANTS
  u1 = u1
  e1 = e1
  e2 = e2
  User <- MCUser
  DepositEvent <- MCDeposit
  Amount <- MCAmount
  Limits <- MCLimits
  MaxSupply = 4
  Day = 2
  MaxTime = 5
  MaxBlock = 3
  MaxCrashes = 2
  JointTime = 1
  JointCrashes = 1
SPECIFICATION SysSpec
INVARIANT PaidOncePerIncarnation
INVARIANT NoGapBetweenRanges
INVARIANT DailyLimitKept
INVARIANT PayoutsMatchMints
PROPERTY SettledStaysSettled
PROPERTY ImplementsFeed
PROPERTY EveryDepositResolved
CHECK_DEADLOCK FALSE
