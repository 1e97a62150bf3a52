CONSTANTS
  u1 = u1
  u2 = u2
  id1 = id1
  User <- MCUser
  Id <- MCId
  Price <- MCPrice
  Quantity <- MCQuantity
  Stock <- MCStock
  Period <- MCPeriod
  Rating <- MCRating
  Fee <- MCFee
  MaxTime = 2
  MaxCalls = 4
  MaxPurchases = 2
SPECIFICATION Spec
SYMMETRY Symmetry
INVARIANT SettledOnce
INVARIANT Accounted
INVARIANT RatingsCounted
CHECK_DEADLOCK FALSE
