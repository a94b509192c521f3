CONSTANTS
  Nodes = {1, 2, 3, 4, 5}
  Slots = {1, 2, 3}
  InitViews <- Retries
  Dead = {3}
  MayFail = {3, 4, 5}
  Links <- Split45
  PingPairs <- NoPairs
  MayForce = FALSE
  MaxTakeovers = 0
  MaxEpoch = 3
  MayRestart = {}
  MaxCrashes = 0
SPECIFICATION Spec
INVARIANTS TypeOK VoteOncePerEpoch CountIsVotes WinnersOutnumber EpochsOrdered
CHECK_DEADLOCK FALSE
