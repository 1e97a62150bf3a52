CONSTANTS
  u1 = u1
  u2 = u2
  id1 = id1
  User <- MCUser
  Id <- MCId
  Price <- MCPrice
  Quantity <- MCQuantity
  Stock <- MCStock
  Period <- MCPeriod
  Rating <- MCRating
  Fee <- MCFee
  MaxTime = 2
  MaxCalls = 3
  MaxPurchases = 2
SPECIFICATION Spec
INVARIANT NoOversell
CHECK_DEADLOCK FALSE
