CONSTANTS
  s1 = s1
  s2 = s2
  v1 = v1
  v2 = v2
  v3 = v3
  p1 = p1
  User <- MCUser
  Amount <- MCAmount
  Call <- MCCall
  Wealth = 1
  MinStake = 1
  VotingPeriod = 0
  ExecutionDelay = 1
  MaxProposals = 2
  Voter <- MCVoter
  Delta <- MCDelta
  MaxScore = 2
  Day = 1
  MaxUpdates = 2
  ProposalId <- MCProposalId
  Weight <- MCWeight
  Period <- MCPeriod
  MinReputation = 1
  MaxDelegations = 2
  MaxCreations = 2
  MaxTime = 3
SPECIFICATION GovSpec
SYMMETRY Symmetry
INVARIANT StakesBacked
INVARIANT TalliesAreVotes
INVARIANT PolicyInForce
INVARIANT PowerIsDelegated
INVARIANT BallotsAccounted
PROPERTY DecidedIsFinal
CHECK_DEADLOCK FALSE
