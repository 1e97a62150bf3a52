CONSTANTS
  n1 = n1
  n2 = n2
  cid1 = cid1
  Node <- MCNode
  Cid <- MCCid
  Amount <- MCAmount
  MinStakes <- MCMinStakes
  Wealth = 3
  MaxTime = 1
SPECIFICATION Spec
PROPERTY WithdrawalsWait
CHECK_DEADLOCK FALSE
